---- MODULE Spec2Model ----
(***************************************************************************)
(* A model of the Miniflux JavaScript client: construction of a            *)
(* MinifluxClient (validation, base URL normalisation, header set), the    *)
(* private request primitive (one fetch, classification of the response    *)
(* status, decoding of the body, error normalisation) and the public       *)
(* operations that bind a verb and a path template to that primitive.      *)
(*                                                                         *)
(* Text is modelled as a sequence of one-character strings, so that        *)
(* concatenation, stripping, base64 and JSON parsing work on characters.   *)
(* JavaScript values are records tagged by the field t.                    *)
(***************************************************************************)
EXTENDS Integers, Sequences, FiniteSets, TLC

VARIABLES pc, config, client, ctorError, calls, legacy

vars == <<pc, config, client, ctorError, calls, legacy>>

(***************************************************************************)
(* Bounds of the model.                                                    *)
(***************************************************************************)

\* Entity ids passed to the operations range over 1..MaxId.
MaxId == 1

(***************************************************************************)
(* JavaScript values.                                                      *)
(***************************************************************************)

Undefined == [t |-> "undefined"]

JNull == [t |-> "null"]

JStr(s) == [t |-> "string", s |-> s]

JNum(n) == [t |-> "number", n |-> n]

JBool(b) == [t |-> "boolean", b |-> b]

\* An object is the sequence of its own properties in insertion order.
JObj(members) == [t |-> "object", members |-> members]

JArr(items) == [t |-> "array", items |-> items]

EmptyObject == JObj(<<>>)

\* !v of JavaScript: undefined, null, "", 0 and false are falsy.
Falsy(v) ==
  \/ v.t \in {"undefined", "null"}
  \/ v.t = "string" /\ v.s = <<>>
  \/ v.t = "number" /\ v.n = 0
  \/ v.t = "boolean" /\ ~v.b

(***************************************************************************)
(* Characters, decimal text and base64 (btoa).                             *)
(***************************************************************************)

\* The printable ASCII characters, code 32 to 126, in code order (the grave
\* accent, code 96, is held by a placeholder and never occurs in a text).
AsciiPrintable ==
  <<" ","!","\"","#","$","%","&","'","(",")","*","+",",","-",".","/","0","1","2","3","4","5","6","7","8","9",":",";","<","=",">","?","@","A","B","C","D","E","F","G","H","I","J","K","L","M","N","O","P","Q","R","S","T","U","V","W","X","Y","Z","[","\\","]","^","_","(grave)","a","b","c","d","e","f","g","h","i","j","k","l","m","n","o","p","q","r","s","t","u","v","w","x","y","z","{","|","}","~">>

CharCode(c) == 31 + (CHOOSE i \in 1..Len(AsciiPrintable) : AsciiPrintable[i] = c)

DecimalDigits == <<"0","1","2","3","4","5","6","7","8","9">>

RECURSIVE NumberToString(_)
\* Number.prototype.toString() of a natural number.
NumberToString(n) ==
  IF n < 10 THEN <<DecimalDigits[n + 1]>>
  ELSE NumberToString(n \div 10) \o <<DecimalDigits[(n % 10) + 1]>>

B64Alphabet ==
  <<"A","B","C","D","E","F","G","H","I","J","K","L","M","N","O","P","Q","R","S","T","U","V","W","X","Y","Z","a","b","c","d","e","f","g","h","i","j","k","l","m","n","o","p","q","r","s","t","u","v","w","x","y","z","0","1","2","3","4","5","6","7","8","9","+","/">>

RECURSIVE btoa(_)
\* btoa: every 3 bytes become 4 characters of the base64 alphabet, the last
\* group padded with '='.
btoa(s) ==
  IF s = <<>> THEN <<>>
  ELSE LET n  == Len(s)
           b1 == CharCode(s[1])
           b2 == IF n >= 2 THEN CharCode(s[2]) ELSE 0
           b3 == IF n >= 3 THEN CharCode(s[3]) ELSE 0
           v  == b1 * 65536 + b2 * 256 + b3
           c1 == B64Alphabet[(v \div 262144) + 1]
           c2 == B64Alphabet[((v \div 4096) % 64) + 1]
           c3 == IF n >= 2 THEN B64Alphabet[((v \div 64) % 64) + 1] ELSE "="
           c4 == IF n >= 3 THEN B64Alphabet[(v % 64) + 1] ELSE "="
       IN  <<c1, c2, c3, c4>> \o (IF n > 3 THEN btoa(SubSeq(s, 4, n)) ELSE <<>>)

(***************************************************************************)
(* Construction.                                                           *)
(***************************************************************************)

NoError == "none"

BaseUrlRequired == "Miniflux base URL is required"

ApiKeyRequired == "Miniflux API key is required"

UsernameRequired == "Miniflux username is required"

PasswordRequired == "Miniflux password is required"

\* The base URLs a caller passes: absent, empty, without a trailing '/',
\* with one and with two.
BaseURLs ==
  { Undefined, JStr(<<>>),
    JStr(<<"h","t","t","p",":","/","/","h">>),
    JStr(<<"h","t","t","p",":","/","/","h">> \o <<"/">>),
    JStr(<<"h","t","t","p",":","/","/","h">> \o <<"/","/">>) }

AuthTypes == { "undefined", "api_key", "password" }

\* The configurations operations are run under: every credential present
\* or absent.
Configs ==
  [baseURL : BaseURLs,
   apiKey : { Undefined, JStr(<<"k">>) },
   username : { Undefined, JStr(<<"u","s">>) },
   password : { Undefined, JStr(<<"p">>) },
   authType : AuthTypes]

\* The configurations construction alone is run under: every field
\* present, empty or absent.
WideConfigs ==
  [baseURL : BaseURLs,
   apiKey : { Undefined, JStr(<<>>), JStr(<<"k">>) },
   username : { Undefined, JStr(<<>>), JStr(<<"u","s">>) },
   password : { Undefined, JStr(<<>>), JStr(<<"p">>) },
   authType : AuthTypes]

\* ValidationError with the password checked before the username.
ValidationError_PasswordFirst(cfg) ==
  IF Falsy(cfg.baseURL) THEN BaseUrlRequired
  ELSE IF cfg.authType = "api_key" /\ Falsy(cfg.apiKey) THEN ApiKeyRequired
  ELSE IF cfg.authType = "password" /\ Falsy(cfg.password) THEN PasswordRequired
  ELSE IF cfg.authType = "password" /\ Falsy(cfg.username) THEN UsernameRequired
  ELSE NoError

\* The validation of the constructor: the message of the first check that
\* throws, NoError when none does.
ValidationError(cfg) ==
  IF Falsy(cfg.baseURL) THEN BaseUrlRequired
  ELSE IF cfg.authType = "api_key" /\ Falsy(cfg.apiKey) THEN ApiKeyRequired
  ELSE IF cfg.authType = "password" /\ Falsy(cfg.username) THEN UsernameRequired
  ELSE IF cfg.authType = "password" /\ Falsy(cfg.password) THEN PasswordRequired
  ELSE NoError

\* The base URL kept as passed.
StripTrailingSlash_None(s) == s

\* baseURL.replace(/\/$/, ''): one '/' at the very end is removed.
StripTrailingSlash(s) ==
  IF s # <<>> /\ s[Len(s)] = "/" THEN SubSeq(s, 1, Len(s) - 1) ELSE s

DefaultHeaders ==
  [h \in {"User-Agent", "Content-Type", "Accept"} |->
     IF h = "User-Agent" THEN <<"M","i","n","i","f","l","u","x"," ","J","S"," ","C","l","i","e","n","t">>
     ELSE <<"a","p","p","l","i","c","a","t","i","o","n","/","j","s","o","n">>]

\* Headers.prototype.set
HeadersSet(headers, name, value) ==
  [h \in DOMAIN headers \cup {name} |-> IF h = name THEN value ELSE headers[h]]

BasicPrefix == <<"B","a","s","i","c"," ">>

\* The header set with a header for every credential the configuration
\* holds.
AuthHeaders_EveryCredential(cfg) ==
  LET keyed == IF ~Falsy(cfg.apiKey)
                 THEN HeadersSet(DefaultHeaders, "X-Auth-Token", cfg.apiKey.s)
               ELSE DefaultHeaders
  IN  IF ~Falsy(cfg.username) /\ ~Falsy(cfg.password)
        THEN HeadersSet(keyed, "Authorization",
                        BasicPrefix \o btoa(cfg.username.s \o <<":">> \o cfg.password.s))
      ELSE keyed

\* The header set built by the constructor: the defaults plus the
\* authentication header of the selected mode.
AuthHeaders(cfg) ==
  IF cfg.authType = "api_key" /\ ~Falsy(cfg.apiKey)
    THEN HeadersSet(DefaultHeaders, "X-Auth-Token", cfg.apiKey.s)
  ELSE IF cfg.authType = "password" /\ ~Falsy(cfg.username) /\ ~Falsy(cfg.password)
    THEN HeadersSet(DefaultHeaders, "Authorization",
                    BasicPrefix \o btoa(cfg.username.s \o <<":">> \o cfg.password.s))
  ELSE DefaultHeaders

\* The object a successful construction leaves behind.
NewClient(cfg) ==
  [baseUrl  |-> StripTrailingSlash(cfg.baseURL.s),
   apiKey   |-> cfg.apiKey,
   username |-> cfg.username,
   password |-> cfg.password,
   headers  |-> AuthHeaders(cfg)]

NoClient == [baseUrl |-> <<>>, apiKey |-> Undefined, username |-> Undefined,
             password |-> Undefined, headers |-> [h \in {} |-> <<>>]]

NoConfig == [baseURL |-> Undefined, apiKey |-> Undefined, username |-> Undefined,
             password |-> Undefined, authType |-> "undefined"]

(***************************************************************************)
(* The legacy client of src/miniflux/index.ts: its constructor.            *)
(***************************************************************************)

\* The validation of the legacy constructor with the API key required in
\* every mode.
LegacyValidationError_KeyInEveryMode(options) ==
  IF Falsy(options.baseURL) THEN BaseUrlRequired
  ELSE IF options.authType = "password" /\ Falsy(options.username) THEN UsernameRequired
  ELSE IF options.authType = "password" /\ Falsy(options.password) THEN PasswordRequired
  ELSE IF Falsy(options.apiKey) THEN ApiKeyRequired
  ELSE NoError

\* The validation of the legacy constructor: the message of the first check
\* that throws, NoError when none does. Every mode but password requires
\* the API key.
LegacyValidationError(options) ==
  IF Falsy(options.baseURL) THEN BaseUrlRequired
  ELSE IF options.authType = "password"
    THEN IF Falsy(options.username) THEN UsernameRequired
         ELSE IF Falsy(options.password) THEN PasswordRequired
         ELSE NoError
  ELSE IF Falsy(options.apiKey) THEN ApiKeyRequired
  ELSE NoError

\* The fields of a constructed legacy client: its base URL ends with '/'.
NewLegacyClient(options) ==
  [baseURL  |-> IF options.baseURL.s[Len(options.baseURL.s)] = "/"
                  THEN options.baseURL.s ELSE options.baseURL.s \o <<"/">>,
   apiKey   |-> options.apiKey,
   username |-> options.username,
   password |-> options.password,
   authType |-> options.authType]

NoLegacyClient ==
  [baseURL |-> <<>>, apiKey |-> Undefined, username |-> Undefined,
   password |-> Undefined, authType |-> "undefined"]

\* The legacy client before its construction.
NoLegacy ==
  [pc |-> "fresh", options |-> NoConfig, error |-> NoError, client |-> NoLegacyClient]

(***************************************************************************)
(* JSON.parse, JSON.stringify, String(v) and property access.              *)
(***************************************************************************)

ParseFail == [ok |-> FALSE, val |-> Undefined, next |-> 0]

ParseOk(v, next) == [ok |-> TRUE, val |-> v, next |-> next]

IsDigit(c) == \E i \in 1..10 : DecimalDigits[i] = c

DigitValue(c) == (CHOOSE i \in 1..10 : DecimalDigits[i] = c) - 1

\* s has the characters of lit from position i on.
HasLiteralAt(s, i, lit) ==
  /\ i + Len(lit) - 1 <= Len(s)
  /\ SubSeq(s, i, i + Len(lit) - 1) = lit

\* A JSON string starting at the quote s[i]; escapes are not accepted.
ParseStringAt(s, i) ==
  LET closing == { j \in (i + 1)..Len(s) : s[j] = "\"" }
  IN  IF closing = {} THEN ParseFail
      ELSE LET j == CHOOSE k \in closing : \A m \in closing : k <= m
               body == SubSeq(s, i + 1, j - 1)
           IN  IF \E k \in 1..Len(body) : body[k] = "\\" THEN ParseFail
               ELSE ParseOk(JStr(body), j + 1)

RECURSIVE DigitsValue(_)
DigitsValue(ds) ==
  IF ds = <<>> THEN 0
  ELSE 10 * DigitsValue(SubSeq(ds, 1, Len(ds) - 1)) + DigitValue(ds[Len(ds)])

\* A JSON number starting at the digit s[i]: a run of digits with no
\* leading zero (no sign, fraction or exponent).
ParseNumberAt(s, i) ==
  LET stop == { j \in i..(Len(s) + 1) : j = Len(s) + 1 \/ ~IsDigit(s[j]) }
      e    == CHOOSE k \in stop : \A m \in stop : k <= m
      ds   == SubSeq(s, i, e - 1)
  IN  IF Len(ds) > 1 /\ ds[1] = "0" THEN ParseFail
      ELSE ParseOk(JNum(DigitsValue(ds)), e)

RECURSIVE ParseValue(_, _), ParseMembers(_, _, _), ParseElements(_, _, _)
\* The JSON value starting at s[i], with the position after it.
ParseValue(s, i) ==
  IF i > Len(s) THEN ParseFail
  ELSE IF s[i] = "{" THEN
         IF i + 1 <= Len(s) /\ s[i + 1] = "}" THEN ParseOk(JObj(<<>>), i + 2)
         ELSE ParseMembers(s, i + 1, <<>>)
  ELSE IF s[i] = "[" THEN
         IF i + 1 <= Len(s) /\ s[i + 1] = "]" THEN ParseOk(JArr(<<>>), i + 2)
         ELSE ParseElements(s, i + 1, <<>>)
  ELSE IF s[i] = "\"" THEN ParseStringAt(s, i)
  ELSE IF HasLiteralAt(s, i, <<"n","u","l","l">>) THEN ParseOk(JNull, i + 4)
  ELSE IF HasLiteralAt(s, i, <<"t","r","u","e">>) THEN ParseOk(JBool(TRUE), i + 4)
  ELSE IF HasLiteralAt(s, i, <<"f","a","l","s","e">>) THEN ParseOk(JBool(FALSE), i + 5)
  ELSE IF IsDigit(s[i]) THEN ParseNumberAt(s, i)
  ELSE ParseFail

\* The members of an object from the key at s[i] on; acc holds those read.
ParseMembers(s, i, acc) ==
  IF i > Len(s) \/ s[i] # "\"" THEN ParseFail
  ELSE LET k == ParseStringAt(s, i)
       IN  IF ~k.ok \/ k.next > Len(s) \/ s[k.next] # ":" THEN ParseFail
           ELSE LET v == ParseValue(s, k.next + 1)
                IN  IF ~v.ok \/ v.next > Len(s) THEN ParseFail
                    ELSE LET more == Append(acc, [k |-> k.val.s, v |-> v.val])
                         IN  IF s[v.next] = "," THEN ParseMembers(s, v.next + 1, more)
                             ELSE IF s[v.next] = "}" THEN ParseOk(JObj(more), v.next + 1)
                             ELSE ParseFail

\* The elements of an array from the value at s[i] on.
ParseElements(s, i, acc) ==
  LET v == ParseValue(s, i)
  IN  IF ~v.ok \/ v.next > Len(s) THEN ParseFail
      ELSE LET more == Append(acc, v.val)
           IN  IF s[v.next] = "," THEN ParseElements(s, v.next + 1, more)
               ELSE IF s[v.next] = "]" THEN ParseOk(JArr(more), v.next + 1)
               ELSE ParseFail

\* JSON.parse(text): the value when the whole text is one JSON value,
\* a SyntaxError otherwise.
JSONParse(text) ==
  LET r == ParseValue(text, 1)
  IN  IF r.ok /\ r.next = Len(text) + 1 THEN [ok |-> TRUE, val |-> r.val]
      ELSE [ok |-> FALSE, val |-> Undefined]

\* v[key]: the last own property of that name, undefined when there is none.
\* (Reading a property of undefined or null throws; the callers test for it.)
GetProp(v, key) ==
  IF v.t # "object" THEN Undefined
  ELSE LET hits == { i \in 1..Len(v.members) : v.members[i].k = key }
       IN  IF hits = {} THEN Undefined
           ELSE v.members[CHOOSE i \in hits : \A j \in hits : j <= i].v

RECURSIVE JoinWith(_, _)
\* Array.prototype.join over texts.
JoinWith(texts, sep) ==
  IF texts = <<>> THEN <<>>
  ELSE IF Len(texts) = 1 THEN texts[1]
  ELSE texts[1] \o sep \o JoinWith(Tail(texts), sep)

RECURSIVE StringOf(_)
\* String(v), as a template literal or toString() converts a value.
StringOf(v) ==
  CASE v.t = "string"    -> v.s
    [] v.t = "number"    -> NumberToString(v.n)
    [] v.t = "boolean"   -> IF v.b THEN <<"t","r","u","e">> ELSE <<"f","a","l","s","e">>
    [] v.t = "undefined" -> <<"u","n","d","e","f","i","n","e","d">>
    [] v.t = "null"      -> <<"n","u","l","l">>
    [] v.t = "array"     ->
         JoinWith([i \in 1..Len(v.items) |->
                     IF v.items[i].t \in {"undefined", "null"} THEN <<>>
                     ELSE StringOf(v.items[i])], <<",">>)
    [] OTHER             -> <<"[","o","b","j","e","c","t"," ","O","b","j","e","c","t","]">>

RECURSIVE JSONStringify(_)
\* JSON.stringify(v): properties whose value is undefined are left out.
JSONStringify(v) ==
  CASE v.t = "string"  -> <<"\"">> \o v.s \o <<"\"">>
    [] v.t = "number"  -> NumberToString(v.n)
    [] v.t = "boolean" -> IF v.b THEN <<"t","r","u","e">> ELSE <<"f","a","l","s","e">>
    [] v.t = "null"    -> <<"n","u","l","l">>
    [] v.t = "array"   ->
         <<"[">> \o JoinWith([i \in 1..Len(v.items) |->
                                IF v.items[i].t = "undefined" THEN <<"n","u","l","l">>
                                ELSE JSONStringify(v.items[i])], <<",">>) \o <<"]">>
    [] v.t = "object"  ->
         LET kept == SelectSeq(v.members, LAMBDA m : m.v.t # "undefined")
         IN  <<"{">> \o JoinWith([i \in 1..Len(kept) |->
                                   <<"\"">> \o kept[i].k \o <<"\"", ":">>
                                     \o JSONStringify(kept[i].v)], <<",">>) \o <<"}">>
    [] OTHER           -> <<>>

(***************************************************************************)
(* URLSearchParams.                                                        *)
(***************************************************************************)

HexDigits == <<"0","1","2","3","4","5","6","7","8","9","A","B","C","D","E","F">>

UrlSafeChars ==
  { AsciiPrintable[i] : i \in 17..26 } \cup { AsciiPrintable[i] : i \in 34..59 }
    \cup { AsciiPrintable[i] : i \in 66..91 } \cup { "*", "-", ".", "_" }

\* application/x-www-form-urlencoded serialisation of one character.
FormEncodeChar(c) ==
  IF c \in UrlSafeChars THEN <<c>>
  ELSE IF c = " " THEN <<"+">>
  ELSE <<"%", HexDigits[(CharCode(c) \div 16) + 1], HexDigits[(CharCode(c) % 16) + 1]>>

RECURSIVE FormEncode(_)
FormEncode(s) ==
  IF s = <<>> THEN <<>> ELSE FormEncodeChar(s[1]) \o FormEncode(Tail(s))

\* URLSearchParams.prototype.toString over the appended (key, value) pairs.
ParamsToString(params) ==
  JoinWith([i \in 1..Len(params) |->
              FormEncode(params[i].k) \o <<"=">> \o FormEncode(params[i].v)], <<"&">>)

(***************************************************************************)
(* The request primitive.                                                  *)
(***************************************************************************)

UnknownError == <<"U","n","k","n","o","w","n"," ","e","r","r","o","r">>

FailedToParse == <<"F","a","i","l","e","d"," ","t","o"," ","p","a","r","s","e"," ","e","r","r","o","r"," ","r","e","s","p","o","n","s","e">>

ErrorMessageKey == <<"e","r","r","o","r","_","m","e","s","s","a","g","e">>

\* ErrorMessage falling back to the response text when the parsed body has
\* no message.
ErrorMessage_RawFallback(text) ==
  LET parsed == JSONParse(text)
  IN  IF parsed.ok /\ parsed.val.t # "null"
        THEN LET m == GetProp(parsed.val, ErrorMessageKey)
             IN  IF Falsy(m) THEN text ELSE StringOf(m)
      ELSE IF text # <<>> THEN text
      ELSE FailedToParse

\* ErrorMessage without the JSON.parse attempt.
ErrorMessage_NoParse(text) ==
  IF text # <<>> THEN text ELSE FailedToParse

\* ErrorMessage whose catch branch forgets the response text.
ErrorMessage_PlaceholderOnly(text) ==
  LET parsed == JSONParse(text)
  IN  IF parsed.ok /\ parsed.val.t # "null"
        THEN LET m == GetProp(parsed.val, ErrorMessageKey)
             IN  IF Falsy(m) THEN UnknownError ELSE StringOf(m)
      ELSE FailedToParse

\* Lines 94-103 of request: the message of the Error thrown for a response
\* that is not ok. A text that does not parse, or that parses to null (whose
\* property access throws inside the try), lands in the catch branch.
ErrorMessage(text) ==
  LET parsed == JSONParse(text)
  IN  IF parsed.ok /\ parsed.val.t # "null"
        THEN LET m == GetProp(parsed.val, ErrorMessageKey)
             IN  IF Falsy(m) THEN UnknownError ELSE StringOf(m)
      ELSE IF text # <<>> THEN text
      ELSE FailedToParse

\* Response.ok taken for "not a client or server error".
ResponseOk_Below400(status) == status >= 200 /\ status <= 399

\* Response.ok
ResponseOk(status) == status >= 200 /\ status <= 299

Resolved(v, read) == [kind |-> "resolved", value |-> v, read |-> read]

Rejected(name, message, read) ==
  [kind |-> "rejected", error |-> [name |-> name, message |-> message], read |-> read]

\* The message of the SyntaxError of Response.json(); its wording is the
\* engine's.
SyntaxErrorMessage == <<"U","n","e","x","p","e","c","t","e","d"," ","t","o","k","e","n">>

\* The message of the TypeError fetch rejects with on a network failure.
FetchFailedMessage == <<"f","e","t","c","h"," ","f","a","i","l","e","d">>

\* The message of the TypeError of reading a property of null.
NullPropertyMessage == <<"C","a","n","n","o","t"," ","d","e","s","t","r","u","c","t","u","r","e"," ","n","u","l","l">>

\* Response.json(): the decoded body or a SyntaxError.
ResponseJson(body) ==
  LET parsed == JSONParse(body)
  IN  IF parsed.ok THEN Resolved(parsed.val, "json")
      ELSE Rejected("SyntaxError", SyntaxErrorMessage, "json")

\* request with 204 handled by the branch of 200 and 201.
RequestOutcome_NoContentDecoded(response, isJson) ==
  IF response.status \in {200, 201, 204}
    THEN IF isJson THEN ResponseJson(response.body)
         ELSE Resolved(JStr(response.body), "text")
  ELSE IF ~ResponseOk(response.status)
    THEN Rejected("Error", ErrorMessage(response.body), "text")
  ELSE Resolved(EmptyObject, "none")

\* Lines 84-106 of request: what the promise of request settles to, given
\* the response of fetch; read tells which reader consumed the body.
RequestOutcome(response, isJson) ==
  IF response.status = 204 THEN Resolved(EmptyObject, "none")
  ELSE IF response.status = 201 \/ response.status = 200
    THEN IF isJson THEN ResponseJson(response.body)
         ELSE Resolved(JStr(response.body), "text")
  ELSE IF ~ResponseOk(response.status)
    THEN Rejected("Error", ErrorMessage(response.body), "text")
  ELSE Resolved(EmptyObject, "none")

(***************************************************************************)
(* The public operations.                                                  *)
(***************************************************************************)

Ids == 1..MaxId

\* Operations that take no argument.
PlainOps ==
  { "getFeeds", "refreshAllFeeds", "getCategories", "getMe", "getUsers",
    "healthcheck", "getVersion", "getCounters" }

\* Operations whose only argument is an id.
IdOps ==
  { "getFeed", "deleteFeed", "refreshFeed", "getFeedIcon", "markFeedAsRead",
    "getEntry", "toggleBookmark", "fetchContent", "saveEntry",
    "deleteCategory", "refreshCategoryFeeds", "markCategoryAsRead",
    "getEnclosure", "getUser", "deleteUser", "markUserAsRead",
    "getMinifluxEntryUrl" }

\* Operations with further arguments.
RichOps ==
  { "createFeed", "getFeedEntries", "updateFeed", "getEntries",
    "updateEntryStatus", "updateEntry", "createCategory", "updateCategory",
    "getCategoryEntries", "updateEnclosure", "createUser", "updateUser",
    "searchEntries" }

Ops == PlainOps \cup IdOps \cup RichOps

\* The void operations when toggleBookmark returns what request resolved with.
VoidOps_ToggleReturnsValue ==
  { "deleteFeed", "refreshFeed", "refreshAllFeeds", "markFeedAsRead",
    "updateEntryStatus", "saveEntry", "deleteCategory",
    "refreshCategoryFeeds", "markCategoryAsRead", "updateEnclosure",
    "deleteUser", "markUserAsRead" }

\* Operations declared Promise<void>: they await request and return nothing.
VoidOps ==
  { "deleteFeed", "refreshFeed", "refreshAllFeeds", "markFeedAsRead",
    "updateEntryStatus", "toggleBookmark", "saveEntry", "deleteCategory",
    "refreshCategoryFeeds", "markCategoryAsRead", "updateEnclosure",
    "deleteUser", "markUserAsRead" }

\* Operations that call request with isJson = false.
TextOps == { "healthcheck", "getVersion" }

\* getVersion calling request without isJson = false.
IsJson_VersionDecoded(op) == op # "healthcheck"

IsJson(op) == op \notin TextOps

\* The method options with the refresh operations sent as POST.
Method_RefreshByPost(op) ==
  IF op \in {"createFeed", "saveEntry", "createCategory", "createUser",
             "refreshFeed", "refreshAllFeeds", "refreshCategoryFeeds"} THEN "POST"
  ELSE IF op \in {"deleteFeed", "deleteCategory", "deleteUser"} THEN "DELETE"
  ELSE IF op \in {"markFeedAsRead", "updateFeed",
                  "updateEntryStatus", "toggleBookmark", "updateEntry",
                  "updateCategory", "markCategoryAsRead",
                  "updateEnclosure", "updateUser", "markUserAsRead"} THEN "PUT"
  ELSE "GET"

\* The method option of the operation; fetch sends GET when none is given.
Method(op) ==
  IF op \in {"createFeed", "saveEntry", "createCategory", "createUser"} THEN "POST"
  ELSE IF op \in {"deleteFeed", "deleteCategory", "deleteUser"} THEN "DELETE"
  ELSE IF op \in {"refreshFeed", "refreshAllFeeds", "markFeedAsRead", "updateFeed",
                  "updateEntryStatus", "toggleBookmark", "updateEntry",
                  "updateCategory", "refreshCategoryFeeds", "markCategoryAsRead",
                  "updateEnclosure", "updateUser", "markUserAsRead"} THEN "PUT"
  ELSE "GET"

Prop(k, v) == [k |-> k, v |-> v]

\* The filters passed to getEntries, getFeedEntries and getCategoryEntries:
\* none, one with no field, one with a sequence and a number, one with an
\* unset field, a false flag and a text that needs encoding, one whose fields
\* the caller wrote in another order than the Filter type declares them, one
\* with a zero and a true flag, and one whose only field is unset.
Filters ==
  { Undefined,
    JObj(<<>>),
    JObj(<<Prop(<<"s","t","a","t","u","s">>, JArr(<<JStr(<<"r","e","a","d">>), JStr(<<"u","n","r","e","a","d">>)>>)),
           Prop(<<"l","i","m","i","t">>, JNum(10))>>),
    JObj(<<Prop(<<"o","f","f","s","e","t">>, Undefined),
           Prop(<<"s","t","a","r","r","e","d">>, JBool(FALSE)),
           Prop(<<"s","e","a","r","c","h">>, JStr(<<"a"," ","b">>))>>),
    JObj(<<Prop(<<"l","i","m","i","t">>, JNum(10)),
           Prop(<<"s","t","a","t","u","s">>, JArr(<<JStr(<<"r","e","a","d">>), JStr(<<"u","n","r","e","a","d">>)>>))>>),
    JObj(<<Prop(<<"o","f","f","s","e","t">>, JNum(0)),
           Prop(<<"d","i","r","e","c","t","i","o","n">>, JStr(<<"d","e","s","c">>)),
           Prop(<<"s","t","a","r","r","e","d">>, JBool(TRUE))>>),
    JObj(<<Prop(<<"b","e","f","o","r","e">>, Undefined)>>) }

EntryStatuses == { <<"r","e","a","d">>, <<"u","n","r","e","a","d">> }

SomeChanges == JObj(<<Prop(<<"t","i","t","l","e">>, JStr(<<"t">>))>>)

\* The arguments an operation is invoked with.
ArgsOf(op) ==
  CASE op \in PlainOps -> { [id |-> 0] }
    [] op \in IdOps -> [id : Ids]
    [] op = "createFeed" ->
         [id : {0}, feedUrl : {<<"f">>}, categoryId : {Undefined} \cup {JNum(i) : i \in Ids}]
    [] op \in {"getFeedEntries", "getCategoryEntries"} -> [id : Ids, filter : Filters]
    [] op = "getEntries" -> [id : {0}, filter : Filters]
    [] op \in {"updateFeed", "updateUser"} -> [id : Ids, changes : {SomeChanges}]
    [] op = "updateEntry" -> [id : Ids, payload : {SomeChanges}]
    [] op = "updateEntryStatus" -> [id : Ids, status : EntryStatuses]
    [] op = "createCategory" -> [id : {0}, title : {<<"t">>}]
    [] op = "updateCategory" -> [id : Ids, title : {<<"t">>}]
    [] op = "updateEnclosure" -> [id : Ids, mediaProgression : {JNum(5)}]
    [] op = "createUser" ->
         [id : {0}, username : {<<"u">>}, password : {<<"p">>}, isAdmin : BOOLEAN]
    [] op = "searchEntries" ->
         [id : {0}, query : {<<"q">>, <<"a"," ","b">>}, limit : {Undefined, JNum(0), JNum(10)}]

\* Object.entries listing the properties latest first.
ObjectEntries_Reversed(obj) ==
  [i \in 1..Len(obj.members) |-> obj.members[Len(obj.members) + 1 - i]]

\* Object.entries(filter): the object's own properties in the order in
\* which the caller's object holds them.
ObjectEntries(obj) == obj.members

\* The body of forEach without the test for undefined.
FilterEntry_KeepsUndefined(m) ==
  IF m.v.t = "array"
    THEN [i \in 1..Len(m.v.items) |-> Prop(m.k, StringOf(m.v.items[i]))]
  ELSE <<Prop(m.k, StringOf(m.v))>>

\* The body of forEach appending an array as one value.
FilterEntry_CommaJoined(m) ==
  IF m.v.t = "undefined" THEN <<>>
  ELSE <<Prop(m.k, StringOf(m.v))>>

\* The body of forEach testing the value for truthiness.
FilterEntry_DropsFalsy(m) ==
  IF Falsy(m.v) THEN <<>>
  ELSE IF m.v.t = "array"
    THEN [i \in 1..Len(m.v.items) |-> Prop(m.k, StringOf(m.v.items[i]))]
  ELSE <<Prop(m.k, StringOf(m.v))>>

\* The body of the forEach of the three entry listings: the (key, value)
\* pairs one property of the filter appends to the URLSearchParams.
FilterEntry(m) ==
  IF m.v.t = "undefined" THEN <<>>
  ELSE IF m.v.t = "array"
    THEN [i \in 1..Len(m.v.items) |-> Prop(m.k, StringOf(m.v.items[i]))]
  ELSE <<Prop(m.k, StringOf(m.v))>>

RECURSIVE FilterParams(_)
\* The forEach over the entries of the filter: the pairs appended to the
\* URLSearchParams, entry by entry.
FilterParams(members) ==
  IF members = <<>> THEN <<>>
  ELSE FilterEntry(members[1]) \o FilterParams(Tail(members))

\* The query suffix of a filter: '?' and the query when it is not empty.
FilterQuery(filter) ==
  LET query == IF Falsy(filter) THEN <<>>
               ELSE ParamsToString(FilterParams(ObjectEntries(filter)))
  IN  IF query # <<>> THEN <<"?">> \o query ELSE <<>>

\* The copy of the encoding in getCategoryEntries putting the '?' before
\* the query whether it is empty or not.
ListingQuery_CategoryAlwaysMarks(op, filter) ==
  IF op = "getCategoryEntries"
    THEN <<"?">> \o (IF Falsy(filter) THEN <<>>
                     ELSE ParamsToString(FilterParams(ObjectEntries(filter))))
  ELSE FilterQuery(filter)

\* getFeedEntries, getEntries and getCategoryEntries each hold their own
\* copy of the encoding of the filter; the three copies are the same text.
ListingQuery(op, filter) == FilterQuery(filter)

\* The query string searchEntries builds.
SearchQuery(query, limit) ==
  LET params == <<Prop(<<"s","e","a","r","c","h">>, query)>>
                  \o (IF Falsy(limit) THEN <<>>
                      ELSE <<Prop(<<"l","i","m","i","t">>, StringOf(limit))>>)
  IN  <<"?","s","e","a","r","c","h","=">> \o ParamsToString(params) \o <<"}">>

V1Feeds == <<"/","v","1","/","f","e","e","d","s">>

V1Entries == <<"/","v","1","/","e","n","t","r","i","e","s">>

V1Categories == <<"/","v","1","/","c","a","t","e","g","o","r","i","e","s">>

V1Enclosures == <<"/","v","1","/","e","n","c","l","o","s","u","r","e","s">>

V1Users == <<"/","v","1","/","u","s","e","r","s">>

Slash == <<"/">>

\* The path an operation passes to request.
Path(op, a) ==
  LET id == NumberToString(a.id)
  IN  CASE op = "getFeeds" -> V1Feeds
        [] op = "getFeed" -> V1Feeds \o Slash \o id
        [] op = "createFeed" -> V1Feeds
        [] op = "deleteFeed" -> V1Feeds \o Slash \o id
        [] op = "refreshFeed" -> V1Feeds \o Slash \o id \o <<"/","r","e","f","r","e","s","h">>
        [] op = "getFeedIcon" -> V1Feeds \o Slash \o id \o <<"/","i","c","o","n">>
        [] op = "getFeedEntries" ->
             V1Feeds \o Slash \o id \o <<"/","e","n","t","r","i","e","s">> \o ListingQuery(op, a.filter)
        [] op = "refreshAllFeeds" -> V1Feeds \o <<"/","r","e","f","r","e","s","h">>
        [] op = "markFeedAsRead" -> V1Feeds \o Slash \o id \o <<"/","m","a","r","k","-","a","l","l","-","a","s","-","r","e","a","d">>
        [] op = "updateFeed" -> V1Feeds \o Slash \o id
        [] op = "getEntries" -> V1Entries \o ListingQuery(op, a.filter)
        [] op = "getEntry" -> V1Entries \o Slash \o id
        [] op = "updateEntryStatus" -> V1Entries \o Slash \o id
        [] op = "toggleBookmark" -> V1Entries \o Slash \o id \o <<"/","b","o","o","k","m","a","r","k">>
        [] op = "fetchContent" -> V1Entries \o Slash \o id \o <<"/","f","e","t","c","h","-","c","o","n","t","e","n","t">>
        [] op = "saveEntry" -> V1Entries \o Slash \o id \o <<"/","s","a","v","e">>
        [] op = "updateEntry" -> V1Entries \o Slash \o id
        [] op = "getCategories" -> V1Categories
        [] op = "createCategory" -> V1Categories
        [] op = "updateCategory" -> V1Categories \o Slash \o id
        [] op = "deleteCategory" -> V1Categories \o Slash \o id
        [] op = "refreshCategoryFeeds" -> V1Categories \o Slash \o id \o <<"/","r","e","f","r","e","s","h">>
        [] op = "getCategoryEntries" ->
             V1Categories \o Slash \o id \o <<"/","e","n","t","r","i","e","s">> \o ListingQuery(op, a.filter)
        [] op = "markCategoryAsRead" ->
             V1Categories \o Slash \o id \o <<"/","m","a","r","k","-","a","l","l","-","a","s","-","r","e","a","d">>
        [] op = "getEnclosure" -> V1Enclosures \o Slash \o id
        [] op = "updateEnclosure" -> V1Enclosures \o Slash \o id
        [] op = "getMe" -> <<"/","v","1","/","m","e">>
        [] op = "getUsers" -> V1Users
        [] op = "getUser" -> V1Users \o Slash \o id
        [] op = "createUser" -> V1Users
        [] op = "updateUser" -> V1Users \o Slash \o id
        [] op = "deleteUser" -> V1Users \o Slash \o id
        [] op = "markUserAsRead" -> V1Users \o Slash \o id \o <<"/","m","a","r","k","-","a","l","l","-","a","s","-","r","e","a","d">>
        [] op = "healthcheck" -> <<"/","h","e","a","l","t","h","c","h","e","c","k">>
        [] op = "getVersion" -> <<"/","v","e","r","s","i","o","n">>
        [] op = "getCounters" -> V1Feeds \o <<"/","c","o","u","n","t","e","r","s">>
        [] op = "searchEntries" -> V1Entries \o SearchQuery(a.query, a.limit)
        [] op = "getMinifluxEntryUrl" -> V1Entries \o Slash \o id

\* The body option of the operation: the JSON text, undefined when the
\* operation passes none.
Body(op, a) ==
  CASE op = "createFeed" ->
         JStr(JSONStringify(JObj(<<Prop(<<"f","e","e","d","_","u","r","l">>, JStr(a.feedUrl)),
                                   Prop(<<"c","a","t","e","g","o","r","y","_","i","d">>, a.categoryId)>>)))
    [] op \in {"updateFeed", "updateUser"} -> JStr(JSONStringify(a.changes))
    [] op = "updateEntry" -> JStr(JSONStringify(a.payload))
    [] op = "updateEntryStatus" ->
         JStr(JSONStringify(JObj(<<Prop(<<"s","t","a","t","u","s">>, JStr(a.status))>>)))
    [] op \in {"createCategory", "updateCategory"} ->
         JStr(JSONStringify(JObj(<<Prop(<<"t","i","t","l","e">>, JStr(a.title))>>)))
    [] op = "updateEnclosure" ->
         JStr(JSONStringify(JObj(<<Prop(<<"m","e","d","i","a","_","p","r","o","g","r","e","s","s","i","o","n">>, a.mediaProgression)>>)))
    [] op = "createUser" ->
         JStr(JSONStringify(JObj(<<Prop(<<"u","s","e","r","n","a","m","e">>, JStr(a.username)),
                                   Prop(<<"p","a","s","s","w","o","r","d">>, JStr(a.password)),
                                   Prop(<<"i","s","_","a","d","m","i","n">>, JBool(a.isAdmin))>>)))
    [] OTHER -> Undefined

\* Lines 78-82 of request: the call of fetch.
FetchCall(cl, op, a) ==
  [url     |-> cl.baseUrl \o Path(op, a),
   method  |-> Method(op),
   headers |-> cl.headers,
   body    |-> Body(op, a)]

\* The URL with the status of the entry as its segment, read included.
EntryUrl_StatusVerbatim(cl, id, status) ==
  cl.baseUrl \o Slash \o StringOf(status)
    \o <<"/","e","n","t","r","y","/">> \o NumberToString(id)

\* The URL getMinifluxEntryUrl derives from the fetched entry.
EntryUrl(cl, id, status) ==
  cl.baseUrl \o Slash
    \o (IF status = JStr(<<"r","e","a","d">>) THEN <<"h","i","s","t","o","r","y">> ELSE StringOf(status))
    \o <<"/","e","n","t","r","y","/">> \o NumberToString(id)

\* The void operations wrapped in a try whose catch returns nothing.
OpOutcome_VoidSwallows(cl, op, a, settled) ==
  IF op \in VoidOps THEN Resolved(Undefined, settled.read)
  ELSE IF settled.kind = "rejected" THEN settled
  ELSE IF op = "getMinifluxEntryUrl"
    THEN IF settled.value.t \in {"null", "undefined"}
           THEN Rejected("TypeError", NullPropertyMessage, settled.read)
         ELSE Resolved(JStr(EntryUrl(cl, a.id, GetProp(settled.value, <<"s","t","a","t","u","s">>))),
                       settled.read)
  ELSE settled

\* getMinifluxEntryUrl waiting for an entry with a status: without one its
\* promise stays pending.
OpOutcome_WaitsForStatus(cl, op, a, settled) ==
  IF settled.kind = "rejected" THEN settled
  ELSE IF op \in VoidOps THEN Resolved(Undefined, settled.read)
  ELSE IF op = "getMinifluxEntryUrl"
    THEN IF settled.value.t \in {"null", "undefined"}
           THEN Rejected("TypeError", NullPropertyMessage, settled.read)
         ELSE IF GetProp(settled.value, <<"s","t","a","t","u","s">>) = Undefined
           THEN [kind |-> "pending"]
         ELSE Resolved(JStr(EntryUrl(cl, a.id, GetProp(settled.value, <<"s","t","a","t","u","s">>))),
                       settled.read)
  ELSE settled

\* What the promise of the operation settles to once request has settled.
OpOutcome(cl, op, a, settled) ==
  IF settled.kind = "rejected" THEN settled
  ELSE IF op \in VoidOps THEN Resolved(Undefined, settled.read)
  ELSE IF op = "getMinifluxEntryUrl"
    THEN IF settled.value.t \in {"null", "undefined"}
           THEN Rejected("TypeError", NullPropertyMessage, settled.read)
         ELSE Resolved(JStr(EntryUrl(cl, a.id, GetProp(settled.value, <<"s","t","a","t","u","s">>))),
                       settled.read)
  ELSE settled

(***************************************************************************)
(* The server and the transport.                                           *)
(***************************************************************************)

Statuses == { 200, 201, 202, 204, 206, 302, 404, 500 }

\* The error messages a server puts in its error bodies.
ServerMessages == { <<>>, <<"X">>, <<"n","o"," ","i","n","t","e","g","r","a","t","i","o","n">> }

\* The JSON error body of the server: {"error_message":"<m>"}.
ErrorBody(m) ==
  <<"{","\"","e","r","r","o","r","_","m","e","s","s","a","g","e","\"",":","\"">> \o m \o <<"\"","}">>

\* The bodies a response carries: nothing, plain text, JSON null, an empty
\* JSON object, error bodies and entries with a status.
ResponseBodies ==
  { <<>>,
    <<"O","K">>,
    <<"p","l","a","i","n"," ","t","e","x","t">>,
    <<"n","u","l","l">>,
    <<"{","}">>,
    <<"{","\"","s","t","a","t","u","s","\"",":","\"","r","e","a","d","\"","}">>,
    <<"{","\"","s","t","a","t","u","s","\"",":","\"","u","n","r","e","a","d","\"","}">>,
    <<"{","\"","s","t","a","t","u","s","\"",":","\"","r","e","m","o","v","e","d","\"","}">> }
  \cup { ErrorBody(m) : m \in ServerMessages }

(***************************************************************************)
(* State and transitions.                                                  *)
(***************************************************************************)

\* One slot holds one invocation of an operation and what became of it:
\* the calls of fetch it made (sent), the response, what the promise of
\* request settled to (primitive) and what the promise of the operation
\* settled to (outcome).
Slots == { 1 }

NoResponse == [status |-> 0, body |-> <<>>]

Pending == [kind |-> "pending"]

IdleCall ==
  [state |-> "idle", op |-> "", args |-> [id |-> 0], sent |-> <<>>,
   response |-> NoResponse, primitive |-> Pending, outcome |-> Pending]

Init ==
  /\ pc = "fresh"
  /\ config = NoConfig
  /\ client = NoClient
  /\ ctorError = NoError
  /\ calls = [c \in Slots |-> IdleCall]
  /\ legacy = NoLegacy

\* A constructor that verifies the credentials of a valid configuration
\* with a request for the current user.
Construct_VerifiesCredentials(cfg) ==
  /\ pc = "fresh"
  /\ config' = cfg
  /\ IF ValidationError(cfg) # NoError
       THEN /\ pc' = "failed"
            /\ ctorError' = ValidationError(cfg)
            /\ client' = NoClient
            /\ UNCHANGED <<calls, legacy>>
       ELSE /\ pc' = "ready"
            /\ ctorError' = NoError
            /\ client' = NewClient(cfg)
            /\ calls' = [c \in Slots |->
                           [calls[c] EXCEPT !.sent =
                              <<FetchCall(NewClient(cfg), "getMe", [id |-> 0])>>]]
            /\ UNCHANGED legacy

\* new MinifluxClient(cfg): throws the first validation error, or leaves a
\* client with its normalised base URL and its header set.
Construct(cfg) ==
  /\ pc = "fresh"
  /\ config' = cfg
  /\ IF ValidationError(cfg) # NoError
       THEN /\ pc' = "failed"
            /\ ctorError' = ValidationError(cfg)
            /\ client' = NoClient
       ELSE /\ pc' = "ready"
            /\ ctorError' = NoError
            /\ client' = NewClient(cfg)
  /\ UNCHANGED <<calls, legacy>>

\* A request that hands its credentials over: the authentication header is
\* sent and then taken out of the header set of the client.
Invoke_ConsumesCredentials(c, op, a) ==
  /\ pc = "ready"
  /\ calls[c].state = "idle"
  /\ calls' = [calls EXCEPT ![c] =
                 [state |-> "awaiting", op |-> op, args |-> a,
                  sent |-> <<FetchCall(client, op, a)>>,
                  response |-> NoResponse, primitive |-> Pending,
                  outcome |-> Pending]]
  /\ client' = [client EXCEPT !.headers = DefaultHeaders]
  /\ UNCHANGED <<pc, config, ctorError, legacy>>

\* A caller invokes op(a): the operation builds its path and request calls
\* fetch once; the promise stays pending until the transport answers.
Invoke(c, op, a) ==
  /\ pc = "ready"
  /\ calls[c].state = "idle"
  /\ calls' = [calls EXCEPT ![c] =
                 [state |-> "awaiting", op |-> op, args |-> a,
                  sent |-> <<FetchCall(client, op, a)>>,
                  response |-> NoResponse, primitive |-> Pending,
                  outcome |-> Pending]]
  /\ UNCHANGED <<pc, config, client, ctorError, legacy>>

\* A request that is sent once more when the server answers with a 5xx.
Respond_RetryOnError(c, status, body) ==
  /\ calls[c].state = "awaiting"
  /\ LET response == [status |-> status, body |-> body]
         call == calls[c]
         settled == RequestOutcome(response, IsJson(call.op))
     IN  IF status >= 500 /\ Len(call.sent) = 1
           THEN calls' = [calls EXCEPT ![c] =
                            [call EXCEPT !.sent = Append(call.sent, call.sent[1])]]
           ELSE calls' = [calls EXCEPT ![c] =
                            [call EXCEPT !.state = "settled",
                                         !.response = response,
                                         !.primitive = settled,
                                         !.outcome = OpOutcome(client, call.op, call.args, settled)]]
  /\ UNCHANGED <<pc, config, client, ctorError, legacy>>

\* A request that keeps the latest response in a field of the client: the
\* response settles every invocation that is awaiting one.
Respond_SharedResponse(c, status, body) ==
  /\ calls[c].state = "awaiting"
  /\ LET response == [status |-> status, body |-> body]
     IN  calls' = [d \in DOMAIN calls |->
                     IF calls[d].state = "awaiting"
                       THEN LET settled == RequestOutcome(response, IsJson(calls[d].op))
                            IN  [calls[d] EXCEPT !.state = "settled",
                                                 !.response = response,
                                                 !.primitive = settled,
                                                 !.outcome = OpOutcome(client, calls[d].op,
                                                                       calls[d].args, settled)]
                     ELSE calls[d]]
  /\ UNCHANGED <<pc, config, client, ctorError, legacy>>

\* fetch resolves with a response: request classifies it and the operation
\* settles.
Respond(c, status, body) ==
  /\ calls[c].state = "awaiting"
  /\ LET response == [status |-> status, body |-> body]
         call == calls[c]
         settled == RequestOutcome(response, IsJson(call.op))
     IN  calls' = [calls EXCEPT ![c] =
                     [call EXCEPT !.state = "settled",
                                  !.response = response,
                                  !.primitive = settled,
                                  !.outcome = OpOutcome(client, call.op, call.args, settled)]]
  /\ UNCHANGED <<pc, config, client, ctorError, legacy>>

\* fetch rejects (no connection, invalid URL): the rejection is the
\* operation's.
FetchFails(c) ==
  /\ calls[c].state = "awaiting"
  /\ calls' = [calls EXCEPT ![c] =
                 [@ EXCEPT !.state = "settled",
                           !.primitive = Rejected("TypeError", FetchFailedMessage, "none"),
                           !.outcome = Rejected("TypeError", FetchFailedMessage, "none")]]
  /\ UNCHANGED <<pc, config, client, ctorError, legacy>>

\* The caller takes the settled result; the slot is free for the next
\* invocation.
Collect(c) ==
  /\ calls[c].state = "settled"
  /\ calls' = [calls EXCEPT ![c] = IdleCall]
  /\ UNCHANGED <<pc, config, client, ctorError, legacy>>

Next ==
  \/ \E cfg \in Configs : Construct(cfg)
  \/ \E c \in Slots, op \in Ops : \E a \in ArgsOf(op) : Invoke(c, op, a)
  \/ \E c \in Slots, status \in Statuses, body \in ResponseBodies : Respond(c, status, body)
  \/ \E c \in Slots : FetchFails(c)
  \/ \E c \in Slots : Collect(c)

\* A client of any configuration, and operations invoked on it one at a
\* time.
Spec == Init /\ [][Next]_vars

NextCtor == \E cfg \in WideConfigs : Construct(cfg)

\* Construction alone, over the wide configurations.
SpecCtor == Init /\ [][NextCtor]_vars

\* new MinifluxClient(options) of the legacy client: throws the first
\* validation error, or stores the options.
ConstructLegacy(options) ==
  /\ legacy.pc = "fresh"
  /\ legacy' = IF LegacyValidationError(options) # NoError
                 THEN [pc |-> "failed", options |-> options,
                       error |-> LegacyValidationError(options), client |-> NoLegacyClient]
               ELSE [pc |-> "ready", options |-> options,
                     error |-> NoError, client |-> NewLegacyClient(options)]
  /\ UNCHANGED <<pc, config, client, ctorError, calls>>

NextLegacy ==
  \/ \E cfg \in WideConfigs : Construct(cfg)
  \/ \E options \in WideConfigs : ConstructLegacy(options)

\* The main client and the legacy client, each constructed once, over the
\* wide configurations.
SpecLegacy == Init /\ [][NextLegacy]_vars

\* Two invocations in flight at a time on one client.
PairSlots == { 1, 2 }

\* The client of the concurrent runs: one with an API key, one without
\* credentials.
PairConfigs ==
  { [baseURL |-> JStr(<<"h","t","t","p",":","/","/","h","/">>), apiKey |-> JStr(<<"k">>), username |-> Undefined,
     password |-> Undefined, authType |-> "api_key"],
    [baseURL |-> JStr(<<"h","t","t","p",":","/","/","h">>), apiKey |-> Undefined, username |-> Undefined,
     password |-> Undefined, authType |-> "undefined"] }

\* The operations invoked concurrently: one that derives its result from
\* the response, a void one, one that reads text and a listing.
PairOps == { "getMinifluxEntryUrl", "deleteFeed", "healthcheck", "getEntries" }

PairStatuses == { 200, 204, 500 }

PairBodies ==
  { <<>>, <<"O","K">>, <<"{","\"","s","t","a","t","u","s","\"",":","\"","r","e","a","d","\"","}">>, <<"{","\"","s","t","a","t","u","s","\"",":","\"","u","n","r","e","a","d","\"","}">>, ErrorBody(<<"X">>) }

InitPair ==
  /\ pc = "fresh"
  /\ config = NoConfig
  /\ client = NoClient
  /\ ctorError = NoError
  /\ calls = [c \in PairSlots |-> IdleCall]
  /\ legacy = NoLegacy

NextPair ==
  \/ \E cfg \in PairConfigs : Construct(cfg)
  \/ \E c \in PairSlots, op \in PairOps : \E a \in ArgsOf(op) : Invoke(c, op, a)
  \/ \E c \in PairSlots, status \in PairStatuses, body \in PairBodies : Respond(c, status, body)
  \/ \E c \in PairSlots : FetchFails(c)
  \/ \E c \in PairSlots : Collect(c)

\* One client and two invocations whose requests are answered in any order.
SpecPair == InitPair /\ [][NextPair]_vars

\* The transport answers the request of slot c, with a response or with an
\* error.
Deliver(c) ==
  \/ \E status \in PairStatuses, body \in PairBodies : Respond(c, status, body)
  \/ FetchFails(c)

\* The concurrent runs in which the transport answers every request it was
\* given: fetch settles its promise, and the continuation of request, which
\* is all the step is made of, runs when it does.
SpecPairFair == SpecPair /\ \A c \in PairSlots : WF_vars(Deliver(c))

(***************************************************************************)
(* Properties.                                                             *)
(***************************************************************************)

\* The invocations whose request was answered by a response.
Answered(c) == calls[c].state = "settled" /\ calls[c].response # NoResponse

\* C1 as stated: every response whose status is not 200, 201 or 204 makes
\* the request primitive fail, its promise rejected with an Error.
C1_AnyOtherStatusFails ==
  \A c \in Slots :
    (Answered(c) /\ calls[c].response.status \notin {200, 201, 204})
      => (calls[c].primitive.kind = "rejected" /\ calls[c].primitive.error.name = "Error")

\* C1 amended: every response whose status lies outside 200..299 makes the
\* request primitive fail with an Error, and the operation with it; a 2xx
\* status other than 200, 201 and 204 makes the primitive resolve with an
\* empty object, the body unread.
C1_NonOkStatusFails ==
  \A c \in Slots :
    Answered(c) =>
      LET status == calls[c].response.status
      IN  /\ (status < 200 \/ status > 299) =>
                /\ calls[c].primitive.kind = "rejected"
                /\ calls[c].primitive.error.name = "Error"
                /\ calls[c].outcome = calls[c].primitive
          /\ (status \in 200..299 /\ status \notin {200, 201, 204}) =>
                /\ calls[c].primitive.kind = "resolved"
                /\ calls[c].primitive.value = EmptyObject
                /\ calls[c].primitive.read = "none"

\* C1 witness: a 302 answer has rejected an operation with an Error.
C1_Witness ==
  \E c \in Slots :
    /\ Answered(c)
    /\ calls[c].response.status = 302
    /\ calls[c].outcome.kind = "rejected"
    /\ calls[c].outcome.error.name = "Error"

\* A caller's view of a missing configuration item: absent or empty.
Missing(v) == v = Undefined \/ v = JStr(<<>>)

\* C2: construction throws the error of the first missing item, in the
\* order base URL, then API key (mode api_key), or username and then
\* password (mode password).
C2_ValidationOrder ==
  pc # "fresh" =>
    /\ Missing(config.baseURL) => (pc = "failed" /\ ctorError = BaseUrlRequired)
    /\ (~Missing(config.baseURL) /\ config.authType = "api_key" /\ Missing(config.apiKey))
         => (pc = "failed" /\ ctorError = ApiKeyRequired)
    /\ (~Missing(config.baseURL) /\ config.authType = "password" /\ Missing(config.username))
         => (pc = "failed" /\ ctorError = UsernameRequired)
    /\ (~Missing(config.baseURL) /\ config.authType = "password"
          /\ ~Missing(config.username) /\ Missing(config.password))
         => (pc = "failed" /\ ctorError = PasswordRequired)

\* C2 witness: with username and password both missing in password mode,
\* construction has thrown the username error.
C2_Witness ==
  /\ pc = "failed"
  /\ config.authType = "password"
  /\ Missing(config.username) /\ Missing(config.password)
  /\ ctorError = UsernameRequired

\* "Basic " followed by the base64 text of us:p.
BasicUsP == <<"B","a","s","i","c"," ","d","X","M","6","c","A","=","=">>

\* C3 as stated: every request of a constructed client carries the
\* authentication header of its mode, X-Auth-Token with the raw key or
\* Authorization with Basic and the base64 of username:password, and none
\* is sent without one of the two.
C3_EveryRequestAuthenticated ==
  \A c \in Slots : \A i \in DOMAIN calls[c].sent :
    LET h == calls[c].sent[i].headers
    IN  /\ config.authType = "api_key" =>
             ("X-Auth-Token" \in DOMAIN h /\ h["X-Auth-Token"] = config.apiKey.s)
        /\ config.authType = "password" =>
             ("Authorization" \in DOMAIN h /\ h["Authorization"] = BasicUsP)
        /\ ("X-Auth-Token" \in DOMAIN h \/ "Authorization" \in DOMAIN h)

\* C4 as stated: a client built as the quick start shows, without authType,
\* from a base URL and an API key, or from a base URL, a username and a
\* password, sends X-Auth-Token with the key, respectively Authorization:
\* Basic with the credentials.
C4_QuickStartAuthenticates ==
  \A c \in Slots : \A i \in DOMAIN calls[c].sent :
    LET h == calls[c].sent[i].headers
    IN  config.authType = "undefined" =>
          /\ (config.apiKey = JStr(<<"k">>) /\ config.username = Undefined
                /\ config.password = Undefined)
               => ("X-Auth-Token" \in DOMAIN h /\ h["X-Auth-Token"] = <<"k">>)
          /\ (config.apiKey = Undefined /\ config.username = JStr(<<"u","s">>)
                /\ config.password = JStr(<<"p">>))
               => ("Authorization" \in DOMAIN h /\ h["Authorization"] = BasicUsP)

\* The invocations answered by a response that is not ok.
AnsweredNotOk(c) ==
  /\ Answered(c)
  /\ (calls[c].response.status < 200 \/ calls[c].response.status > 299)

\* The bodies that are a JSON object without an error-message field, or
\* with an empty one.
BodiesWithoutMessage ==
  { <<"{","}">>, <<"{","\"","e","r","r","o","r","_","m","e","s","s","a","g","e","\"",":","\"","\"","}">>, <<"{","\"","s","t","a","t","u","s","\"",":","\"","r","e","a","d","\"","}">>, <<"{","\"","s","t","a","t","u","s","\"",":","\"","u","n","r","e","a","d","\"","}">>,
    <<"{","\"","s","t","a","t","u","s","\"",":","\"","r","e","m","o","v","e","d","\"","}">> }

\* C5 as stated: when the error body parses as JSON but has no error-message
\* field (or an empty one), the message of the failure is the raw response
\* text; the placeholder is used only when there is no text at all.
C5_RawTextWithoutMessage ==
  \A c \in Slots :
    AnsweredNotOk(c) =>
      /\ calls[c].response.body \in BodiesWithoutMessage \cup {<<"n","u","l","l">>}
           => calls[c].outcome.error.message = calls[c].response.body
      /\ calls[c].outcome.error.message = FailedToParse
           => calls[c].response.body = <<>>

\* C5 amended: when the error body parses as JSON other than null but has no
\* error-message field (or an empty one), the message of the failure is the
\* fixed text 'Unknown error'; the JSON null gives the raw text, and the
\* placeholder is used exactly when there is no text at all.
C5_UnknownErrorWithoutMessage ==
  \A c \in Slots :
    AnsweredNotOk(c) =>
      /\ calls[c].outcome.kind = "rejected"
      /\ calls[c].response.body \in BodiesWithoutMessage
           => calls[c].outcome.error.message = <<"U","n","k","n","o","w","n"," ","e","r","r","o","r">>
      /\ calls[c].response.body = <<"n","u","l","l">>
           => calls[c].outcome.error.message = <<"n","u","l","l">>
      /\ calls[c].outcome.error.message = <<"F","a","i","l","e","d"," ","t","o"," ","p","a","r","s","e"," ","e","r","r","o","r"," ","r","e","s","p","o","n","s","e">>
           <=> calls[c].response.body = <<>>

\* C5 witness: a 404 with body {} has failed an operation with the message
\* 'Unknown error'.
C5_Witness ==
  \E c \in Slots :
    /\ AnsweredNotOk(c)
    /\ calls[c].response = [status |-> 404, body |-> <<"{","}">>]
    /\ calls[c].outcome.error.message = <<"U","n","k","n","o","w","n"," ","e","r","r","o","r">>

\* C6: an error response with body {"error_message": X}, X not empty, fails
\* the operation with an Error whose message is exactly X, whatever the
\* operation and the error status.
C6_ServerMessageIsTheMessage ==
  \A c \in Slots : \A m \in ServerMessages \ {<<>>} :
    (AnsweredNotOk(c) /\ calls[c].response.body
                            = <<"{","\"","e","r","r","o","r","_","m","e","s","s","a","g","e","\"",":","\"">> \o m \o <<"\"","}">>)
      => /\ calls[c].outcome.kind = "rejected"
         /\ calls[c].outcome.error = [name |-> "Error", message |-> m]

\* C6 witness: saveEntry, answered 500 with an error body, has failed with
\* the server's message.
C6_Witness ==
  \E c \in Slots :
    /\ AnsweredNotOk(c)
    /\ calls[c].op = "saveEntry"
    /\ calls[c].response =
         [status |-> 500, body |-> <<"{","\"","e","r","r","o","r","_","m","e","s","s","a","g","e","\"",":","\"","n","o"," ","i","n","t","e","g","r","a","t","i","o","n","\"","}">>]
    /\ calls[c].outcome.error.message = <<"n","o"," ","i","n","t","e","g","r","a","t","i","o","n">>

\* C7: an error response whose body is not JSON fails the operation with an
\* Error whose message is exactly the body text; an empty body gives the
\* placeholder 'Failed to parse error response'.
C7_RawTextIsTheMessage ==
  \A c \in Slots :
    AnsweredNotOk(c) =>
      /\ calls[c].response.body \in { <<"O","K">>, <<"p","l","a","i","n"," ","t","e","x","t">> }
           => /\ calls[c].outcome.kind = "rejected"
              /\ calls[c].outcome.error =
                   [name |-> "Error", message |-> calls[c].response.body]
      /\ calls[c].response.body = <<>>
           => /\ calls[c].outcome.kind = "rejected"
              /\ calls[c].outcome.error =
                   [name |-> "Error", message |-> <<"F","a","i","l","e","d"," ","t","o"," ","p","a","r","s","e"," ","e","r","r","o","r"," ","r","e","s","p","o","n","s","e">>]

\* C7 witness: a 500 with body 'plain text' has failed an operation with
\* that text as the message.
C7_Witness ==
  \E c \in Slots :
    /\ AnsweredNotOk(c)
    /\ calls[c].response = [status |-> 500, body |-> <<"p","l","a","i","n"," ","t","e","x","t">>]
    /\ calls[c].outcome.error.message = <<"p","l","a","i","n"," ","t","e","x","t">>

\* The action operations: delete*, refresh*, mark*AsRead, toggleBookmark,
\* updateEntryStatus and updateEnclosure.
ActionOps ==
  { "deleteFeed", "deleteCategory", "deleteUser",
    "refreshFeed", "refreshAllFeeds", "refreshCategoryFeeds",
    "markFeedAsRead", "markCategoryAsRead", "markUserAsRead",
    "toggleBookmark", "updateEntryStatus", "updateEnclosure" }

\* C8: a 204 response makes request resolve with an empty object without
\* reading the body, whatever the operation; the operation succeeds, an
\* action operation with undefined, an operation that returns what request
\* returned with the empty object.
C8_NoContentIsEmptySuccess ==
  \A c \in Slots :
    (Answered(c) /\ calls[c].response.status = 204) =>
      /\ calls[c].primitive = [kind |-> "resolved", value |-> EmptyObject, read |-> "none"]
      /\ calls[c].outcome.kind = "resolved"
      /\ calls[c].outcome.read = "none"
      /\ calls[c].op \in ActionOps => calls[c].outcome.value = Undefined
      /\ calls[c].op \notin ActionOps \cup {"saveEntry", "getMinifluxEntryUrl"}
           => calls[c].outcome.value = EmptyObject

\* C8 witness: deleteFeed, answered 204 with a body, has resolved with
\* undefined and the body unread.
C8_Witness ==
  \E c \in Slots :
    /\ Answered(c)
    /\ calls[c].op = "deleteFeed"
    /\ calls[c].response = [status |-> 204, body |-> <<"p","l","a","i","n"," ","t","e","x","t">>]
    /\ calls[c].outcome = [kind |-> "resolved", value |-> Undefined, read |-> "none"]

\* The two operations declared non-JSON.
PlainTextOps == { "healthcheck", "getVersion" }

\* The response bodies that are JSON texts, with the value each decodes to.
JsonBodies ==
  { <<"n","u","l","l">>, <<"{","}">>, <<"{","\"","s","t","a","t","u","s","\"",":","\"","r","e","a","d","\"","}">>, <<"{","\"","s","t","a","t","u","s","\"",":","\"","u","n","r","e","a","d","\"","}">>,
    <<"{","\"","s","t","a","t","u","s","\"",":","\"","r","e","m","o","v","e","d","\"","}">> }
    \cup { <<"{","\"","e","r","r","o","r","_","m","e","s","s","a","g","e","\"",":","\"">> \o m \o <<"\"","}">> : m \in ServerMessages }

DecodedBody(body) ==
  CASE body = <<"n","u","l","l">> -> [t |-> "null"]
    [] body = <<"{","}">> -> [t |-> "object", members |-> <<>>]
    [] body = <<"{","\"","s","t","a","t","u","s","\"",":","\"","r","e","a","d","\"","}">> ->
         [t |-> "object",
          members |-> <<[k |-> <<"s","t","a","t","u","s">>, v |-> [t |-> "string", s |-> <<"r","e","a","d">>]]>>]
    [] body = <<"{","\"","s","t","a","t","u","s","\"",":","\"","u","n","r","e","a","d","\"","}">> ->
         [t |-> "object",
          members |-> <<[k |-> <<"s","t","a","t","u","s">>, v |-> [t |-> "string", s |-> <<"u","n","r","e","a","d">>]]>>]
    [] body = <<"{","\"","s","t","a","t","u","s","\"",":","\"","r","e","m","o","v","e","d","\"","}">> ->
         [t |-> "object",
          members |-> <<[k |-> <<"s","t","a","t","u","s">>, v |-> [t |-> "string", s |-> <<"r","e","m","o","v","e","d">>]]>>]
    [] OTHER ->
         [t |-> "object",
          members |-> <<[k |-> <<"e","r","r","o","r","_","m","e","s","s","a","g","e">>,
                         v |-> [t |-> "string",
                                s |-> SubSeq(body, 19, Len(body) - 2)]]>>]

\* C9 as stated: a 200 or 201 response yields success, with the raw text
\* for healthcheck and getVersion and with the body decoded as JSON for
\* every other operation.
C9_SuccessIsDecodedBody ==
  \A c \in Slots :
    (Answered(c) /\ calls[c].response.status \in {200, 201}) =>
      /\ calls[c].primitive.kind = "resolved"
      /\ calls[c].op \in PlainTextOps
           => calls[c].outcome.value = JStr(calls[c].response.body)
      /\ calls[c].op \notin PlainTextOps
           => /\ calls[c].primitive.read = "json"
              /\ calls[c].primitive.value = DecodedBody(calls[c].response.body)

\* C9 amended: on a 200 or 201 response healthcheck and getVersion resolve
\* with the raw text of the body; for every other operation request decodes
\* the body as JSON and resolves with the decoded value when the body is a
\* JSON text, and the operation is rejected with a SyntaxError when it is
\* not; no other operation ever resolves with raw text.
C9_DecodedWhenJsonElseRejected ==
  \A c \in Slots :
    Answered(c) =>
      /\ (calls[c].response.status \in {200, 201} /\ calls[c].op \in PlainTextOps)
           => calls[c].outcome =
                [kind |-> "resolved", value |-> JStr(calls[c].response.body), read |-> "text"]
      /\ (calls[c].response.status \in {200, 201} /\ calls[c].op \notin PlainTextOps
            /\ calls[c].response.body \in JsonBodies)
           => calls[c].primitive =
                [kind |-> "resolved", value |-> DecodedBody(calls[c].response.body),
                 read |-> "json"]
      /\ (calls[c].response.status \in {200, 201} /\ calls[c].op \notin PlainTextOps
            /\ calls[c].response.body \notin JsonBodies)
           => /\ calls[c].outcome.kind = "rejected"
              /\ calls[c].outcome.error.name = "SyntaxError"
              /\ calls[c].outcome.read = "json"
      /\ (calls[c].outcome.kind = "resolved" /\ calls[c].op \notin PlainTextOps)
           => calls[c].outcome.read # "text"

\* C9 witness: healthcheck, answered 200 with body OK, has resolved with
\* the text OK.
C9_Witness ==
  \E c \in Slots :
    /\ Answered(c)
    /\ calls[c].op = "healthcheck"
    /\ calls[c].response = [status |-> 200, body |-> <<"O","K">>]
    /\ calls[c].outcome = [kind |-> "resolved", value |-> JStr(<<"O","K">>), read |-> "text"]

EndsWithSlash(s) == s # <<>> /\ s[Len(s)] = "/"

\* The base URL less its last character.
AllButLast(s) == SubSeq(s, 1, Len(s) - 1)

\* C10 as stated: the constructor strips exactly one trailing '/' and leaves
\* a base URL without one unchanged, and for any base URL that ends with
\* '/' every request URL has exactly one '/' between base and path.
C10_NoDoubleSlash ==
  pc = "ready" =>
    LET b == config.baseURL.s
        n == Len(b)
    IN  /\ client.baseUrl = IF EndsWithSlash(b) THEN AllButLast(b) ELSE b
        /\ \A c \in Slots : \A i \in DOMAIN calls[c].sent :
             LET url == calls[c].sent[i].url
             IN  EndsWithSlash(b) =>
                   /\ Len(url) > n
                   /\ SubSeq(url, 1, n) = b
                   /\ url[n - 1] # "/"
                   /\ url[n + 1] # "/"

\* C10 amended: the constructor strips exactly one trailing '/' and leaves a
\* base URL without one unchanged; for a base URL that ends with exactly one
\* '/', and for one that ends with none, every request URL has exactly one
\* '/' between base and path; a base URL that ends with '//' keeps one '/'
\* and its request URLs have '//' before the path.
C10_NoDoubleSlashAfterSingle ==
  pc = "ready" =>
    LET b == config.baseURL.s
        n == Len(b)
    IN  /\ client.baseUrl = IF EndsWithSlash(b) THEN AllButLast(b) ELSE b
        /\ \A c \in Slots : \A i \in DOMAIN calls[c].sent :
             LET url == calls[c].sent[i].url
             IN  /\ (EndsWithSlash(b) /\ ~EndsWithSlash(AllButLast(b))) =>
                       /\ Len(url) > n
                       /\ SubSeq(url, 1, n) = b
                       /\ url[n + 1] # "/"
                 /\ ~EndsWithSlash(b) =>
                       /\ Len(url) > n + 1
                       /\ SubSeq(url, 1, n) = b
                       /\ url[n + 1] = "/"
                       /\ url[n + 2] # "/"
                 /\ (EndsWithSlash(b) /\ EndsWithSlash(AllButLast(b))) =>
                       /\ SubSeq(url, 1, n) = b
                       /\ url[n + 1] # "/"

\* C10 witness: a client built from http://h/ has sent getFeeds to
\* http://h/v1/feeds.
C10_Witness ==
  /\ pc = "ready"
  /\ config.baseURL = JStr(<<"h","t","t","p",":","/","/","h","/">>)
  /\ \E c \in Slots :
       /\ calls[c].state = "awaiting"
       /\ calls[c].op = "getFeeds"
       /\ calls[c].sent[1].url = <<"h","t","t","p",":","/","/","h","/","v","1","/","f","e","e","d","s">>

\* The invocations that have called fetch.
Issued(c) == calls[c].state \in {"awaiting", "settled"}

\* C11: searchEntries(query, limit) requests /v1/entries with a query string
\* that is exactly search=<query>, followed by &limit=<limit> when a limit
\* is given: the key search occurs once and nothing follows the last value.
C11_SearchQueryIsClean ==
  \A c \in Slots :
    (Issued(c) /\ calls[c].op = "searchEntries")
      => LET a == calls[c].args
             search == IF a.query = <<"q">> THEN <<"s","e","a","r","c","h","=","q">> ELSE <<"s","e","a","r","c","h","=","a","+","b">>
             limit  == IF a.limit = JNum(10) THEN <<"&","l","i","m","i","t","=","1","0">>
                       ELSE IF a.limit = JNum(0) THEN <<"&","l","i","m","i","t","=","0">>
                       ELSE <<>>
         IN  /\ calls[c].sent[1].method = "GET"
             /\ calls[c].sent[1].url
                  = client.baseUrl \o <<"/","v","1","/","e","n","t","r","i","e","s","?">> \o search \o limit

\* C12: when the server answers the save request with 202 Accepted,
\* saveEntry resolves with the text 202 Accepted.
C12_SaveEntryResolvesWithAccepted ==
  \A c \in Slots :
    (Answered(c) /\ calls[c].op = "saveEntry" /\ calls[c].response.status = 202)
      => /\ calls[c].outcome.kind = "resolved"
         /\ calls[c].outcome.value = JStr(<<"2","0","2"," ","A","c","c","e","p","t","e","d">>)

\* C13: every invocation of a public operation performs exactly one HTTP
\* request: from the invocation on, and after the response (an error status
\* included) or the transport error has settled it, fetch has been called
\* once, for the URL and method of the operation; getMinifluxEntryUrl is no
\* exception.
C13_ExactlyOneRequest ==
  \A c \in Slots :
    /\ Issued(c) =>
         /\ Len(calls[c].sent) = 1
         /\ calls[c].sent[1].url = client.baseUrl \o Path(calls[c].op, calls[c].args)
         /\ calls[c].sent[1].method = Method(calls[c].op)
    /\ ~Issued(c) => calls[c].sent = <<>>

\* getMinifluxEntryUrl answered by a 500: the operation is rejected and one
\* request was sent.
C13_Witness ==
  \E c \in Slots :
    /\ Answered(c)
    /\ calls[c].op = "getMinifluxEntryUrl"
    /\ calls[c].response.status = 500
    /\ calls[c].outcome.kind = "rejected"
    /\ Len(calls[c].sent) = 1

\* C14: constructing a client sends nothing, whether the construction fails
\* with a configuration error or succeeds: the step that constructs leaves
\* every list of fetch calls empty, and a fetch call is only ever added by
\* the invocation of an operation on a constructed client.
C14_ConstructionSendsNothing ==
  [][ /\ pc = "fresh" =>
           \A c \in Slots : calls'[c].sent = <<>> /\ calls'[c].state = "idle"
      /\ \A c \in Slots :
           Len(calls'[c].sent) > Len(calls[c].sent)
             => /\ pc = "ready"
                /\ calls[c].state = "idle"
                /\ calls'[c].state = "awaiting"
                /\ calls'[c].op \in Ops ]_vars

\* A construction that failed for its missing API key, nothing sent.
C14_Witness ==
  /\ pc = "failed"
  /\ ctorError = ApiKeyRequired
  /\ \A c \in Slots : calls[c].sent = <<>>

\* The three entry listings that take a filter.
FilterOps == { "getEntries", "getFeedEntries", "getCategoryEntries" }

\* The invocations of an entry listing that have called fetch.
Listing(c) == Issued(c) /\ calls[c].op \in FilterOps

\* The text s holds the text sub somewhere.
Contains(s, sub) ==
  \E i \in 1..(Len(s) - Len(sub) + 1) : SubSeq(s, i, i + Len(sub) - 1) = sub

\* The part of a URL from its first '?' on; nothing when it has none.
QueryOf(url) ==
  IF \E i \in 1..Len(url) : url[i] = "?"
    THEN LET first == CHOOSE i \in 1..Len(url) :
                        url[i] = "?" /\ \A j \in 1..(i - 1) : url[j] # "?"
         IN  SubSeq(url, first, Len(url))
  ELSE <<>>

\* The fields of a filter that are set.
SetFields(filter) ==
  IF filter = Undefined THEN {}
  ELSE { i \in 1..Len(filter.members) : filter.members[i].v # Undefined }

\* C15: in getEntries, getFeedEntries and getCategoryEntries a filter field
\* that is absent contributes nothing to the query string: its key does not
\* occur, no value is empty and the texts undefined and null do not occur;
\* with no field set, or no filter, the URL has no '?'.
C15_AbsentFieldsContributeNothing ==
  \A c \in Slots :
    Listing(c) =>
      LET filter == calls[c].args.filter
          url == calls[c].sent[1].url
          query == QueryOf(url)
      IN  /\ filter # Undefined =>
               \A i \in 1..Len(filter.members) :
                 filter.members[i].v = Undefined
                   => ~Contains(query, filter.members[i].k \o <<"=">>)
          /\ ~Contains(query, <<"u","n","d","e","f","i","n","e","d">>)
          /\ ~Contains(query, <<"n","u","l","l">>)
          /\ ~Contains(query, <<"=","&">>)
          /\ query # <<>> => query[Len(query)] # "="
          /\ SetFields(filter) = {} => (query = <<>> /\ ~Contains(url, <<"?">>))
          /\ SetFields(filter) # {} => query # <<>>

\* getCategoryEntries with a filter whose offset is unset: the query holds
\* the two set fields only.
C15_Witness ==
  \E c \in Slots :
    /\ Listing(c)
    /\ calls[c].op = "getCategoryEntries"
    /\ calls[c].args.filter =
         JObj(<<Prop(<<"o","f","f","s","e","t">>, Undefined),
                Prop(<<"s","t","a","r","r","e","d">>, JBool(FALSE)),
                Prop(<<"s","e","a","r","c","h">>, JStr(<<"a"," ","b">>))>>)
    /\ QueryOf(calls[c].sent[1].url) = <<"?","s","t","a","r","r","e","d","=","f","a","l","s","e","&","s","e","a","r","c","h","=","a","+","b">>

\* The filter with status read and unread and limit 10, in that order.
StatusesAndLimit ==
  JObj(<<Prop(<<"s","t","a","t","u","s">>, JArr(<<JStr(<<"r","e","a","d">>), JStr(<<"u","n","r","e","a","d">>)>>)),
         Prop(<<"l","i","m","i","t">>, JNum(10))>>)

\* C16: a sequence-valued filter field is encoded as one query parameter
\* for each element, each with the key of the field, in the order of the
\* sequence and never joined by commas: status read, unread with limit 10
\* gives status=read, then status=unread, then one limit=10.
C16_SequenceIsRepeatedKey ==
  \A c \in Slots :
    (Listing(c) /\ calls[c].args.filter = StatusesAndLimit)
      => LET query == QueryOf(calls[c].sent[1].url)
         IN  /\ query = <<"?","s","t","a","t","u","s","=","r","e","a","d","&","s","t","a","t","u","s","=","u","n","r","e","a","d","&","l","i","m","i","t","=","1","0">>
             /\ ~Contains(query, <<",">>)
             /\ ~Contains(query, <<"%","2","C">>)

\* getFeedEntries with that filter.
C16_Witness ==
  \E c \in Slots :
    /\ Listing(c)
    /\ calls[c].op = "getFeedEntries"
    /\ calls[c].args.filter = StatusesAndLimit
    /\ Contains(calls[c].sent[1].url, <<"s","t","a","t","u","s","=","r","e","a","d","&","s","t","a","t","u","s","=","u","n","r","e","a","d">>)

\* The text a scalar of the filters is written as in a query string.
ScalarText(v) ==
  CASE v = JNum(0)        -> <<"0">>
    [] v = JNum(10)       -> <<"1","0">>
    [] v = JBool(TRUE)    -> <<"t","r","u","e">>
    [] v = JBool(FALSE)   -> <<"f","a","l","s","e">>
    [] v = JStr(<<"d","e","s","c">>) -> <<"d","e","s","c">>
    [] v = JStr(<<"a"," ","b">>)  -> <<"a","+","b">>

\* The number of places where the text s holds the text sub.
Occurrences(s, sub) ==
  Cardinality({ i \in 1..(Len(s) - Len(sub) + 1) : SubSeq(s, i, i + Len(sub) - 1) = sub })

\* C17: every scalar filter field that is present is encoded as exactly one
\* key=value pair, the value in its text form: a number in decimal, 0
\* included, a boolean as true or false, a false starred included.
C17_ScalarIsOnePair ==
  \A c \in Slots :
    (Listing(c) /\ calls[c].args.filter # Undefined)
      => LET members == calls[c].args.filter.members
             query == QueryOf(calls[c].sent[1].url)
         IN  \A i \in 1..Len(members) :
               members[i].v.t \in {"number", "boolean", "string"}
                 => /\ Occurrences(query, members[i].k \o <<"=">>) = 1
                    /\ \E sep \in {"?", "&"} :
                         Contains(query \o <<"&">>,
                                  <<sep>> \o members[i].k \o <<"=">>
                                    \o ScalarText(members[i].v) \o <<"&">>)

\* getEntries with offset 0, direction desc and starred true: the zero is
\* in the query.
C17_Witness ==
  \E c \in Slots :
    /\ Listing(c)
    /\ calls[c].op = "getEntries"
    /\ calls[c].args.filter =
         JObj(<<Prop(<<"o","f","f","s","e","t">>, JNum(0)),
                Prop(<<"d","i","r","e","c","t","i","o","n">>, JStr(<<"d","e","s","c">>)),
                Prop(<<"s","t","a","r","r","e","d">>, JBool(TRUE))>>)
    /\ QueryOf(calls[c].sent[1].url) = <<"?","o","f","f","s","e","t","=","0","&","d","i","r","e","c","t","i","o","n","=","d","e","s","c","&","s","t","a","r","r","e","d","=","t","r","u","e">>

\* The fields of the Filter type in the order of their declaration.
DeclaredFields ==
  << <<"s","t","a","t","u","s">>, <<"o","f","f","s","e","t">>, <<"l","i","m","i","t">>, <<"o","r","d","e","r">>, <<"d","i","r","e","c","t","i","o","n">>, <<"b","e","f","o","r","e">>,
     <<"a","f","t","e","r">>, <<"p","u","b","l","i","s","h","e","d","_","b","e","f","o","r","e">>, <<"p","u","b","l","i","s","h","e","d","_","a","f","t","e","r">>, <<"c","h","a","n","g","e","d","_","b","e","f","o","r","e">>,
     <<"c","h","a","n","g","e","d","_","a","f","t","e","r">>, <<"b","e","f","o","r","e","_","e","n","t","r","y","_","i","d">>, <<"a","f","t","e","r","_","e","n","t","r","y","_","i","d">>, <<"s","t","a","r","r","e","d">>,
     <<"s","e","a","r","c","h">>, <<"c","a","t","e","g","o","r","y","_","i","d">> >>

\* The place of a field in the declaration of the Filter type.
DeclaredAt(k) == CHOOSE i \in 1..Len(DeclaredFields) : DeclaredFields[i] = k

\* The first place where the query holds the key k, after '?' or '&'.
KeyAt(query, k) ==
  LET at == { i \in 1..Len(query) :
                /\ query[i] \in {"?", "&"}
                /\ SubSeq(query, i + 1, i + Len(k) + 1) = k \o <<"=">> }
  IN  CHOOSE i \in at : \A j \in at : i <= j

\* Two filters hold the same fields with the same values.
SameFields(f, g) ==
  /\ f # Undefined
  /\ g # Undefined
  /\ { f.members[i] : i \in 1..Len(f.members) } = { g.members[i] : i \in 1..Len(g.members) }

\* C18 as stated: the keys of the query string appear in the order in which
\* the Filter type declares its fields (status, offset, limit, order,
\* direction, ...), and two filters that hold the same fields with the same
\* values produce the same query string.
C18_KeysInDeclarationOrder ==
  \A c \in Slots :
    (Listing(c) /\ calls[c].args.filter # Undefined)
      => LET filter == calls[c].args.filter
             query == QueryOf(calls[c].sent[1].url)
             set == SetFields(filter)
         IN  /\ \A i, j \in set :
                  DeclaredAt(filter.members[i].k) < DeclaredAt(filter.members[j].k)
                    => KeyAt(query, filter.members[i].k) < KeyAt(query, filter.members[j].k)
             /\ \A other \in Filters :
                  SameFields(other, filter) => FilterQuery(other) = query

\* The filter with limit 10 and status read and unread, in that order.
LimitAndStatuses ==
  JObj(<<Prop(<<"l","i","m","i","t">>, JNum(10)),
         Prop(<<"s","t","a","t","u","s">>, JArr(<<JStr(<<"r","e","a","d">>), JStr(<<"u","n","r","e","a","d">>)>>))>>)

\* The query string of each filter.
QueryInOwnOrder(filter) ==
  CASE filter = StatusesAndLimit -> <<"?","s","t","a","t","u","s","=","r","e","a","d","&","s","t","a","t","u","s","=","u","n","r","e","a","d","&","l","i","m","i","t","=","1","0">>
    [] filter = LimitAndStatuses -> <<"?","l","i","m","i","t","=","1","0","&","s","t","a","t","u","s","=","r","e","a","d","&","s","t","a","t","u","s","=","u","n","r","e","a","d">>
    [] filter = JObj(<<Prop(<<"o","f","f","s","e","t">>, Undefined),
                       Prop(<<"s","t","a","r","r","e","d">>, JBool(FALSE)),
                       Prop(<<"s","e","a","r","c","h">>, JStr(<<"a"," ","b">>))>>)
                                 -> <<"?","s","t","a","r","r","e","d","=","f","a","l","s","e","&","s","e","a","r","c","h","=","a","+","b">>
    [] filter = JObj(<<Prop(<<"o","f","f","s","e","t">>, JNum(0)),
                       Prop(<<"d","i","r","e","c","t","i","o","n">>, JStr(<<"d","e","s","c">>)),
                       Prop(<<"s","t","a","r","r","e","d">>, JBool(TRUE))>>)
                                 -> <<"?","o","f","f","s","e","t","=","0","&","d","i","r","e","c","t","i","o","n","=","d","e","s","c","&","s","t","a","r","r","e","d","=","t","r","u","e">>
    [] OTHER                     -> <<>>

\* C18, amended: the keys of the query string appear in the order in which
\* the filter object holds its fields, whatever the order of the Filter
\* type's declaration, and the query string is a function of the filter
\* alone: the same fields with the same values in the same order give the
\* same query string in every listing, on every client and every time.
C18_KeysInOwnOrder ==
  \A c \in Slots :
    Listing(c) =>
      LET filter == calls[c].args.filter
          query == QueryOf(calls[c].sent[1].url)
      IN  /\ query = QueryInOwnOrder(filter)
          /\ \A i, j \in SetFields(filter) :
               i < j => KeyAt(query, filter.members[i].k) < KeyAt(query, filter.members[j].k)

\* getEntries with limit written before status: limit comes first in the
\* query string.
C18_Witness ==
  \E c \in Slots :
    /\ Listing(c)
    /\ calls[c].op = "getEntries"
    /\ calls[c].args.filter = LimitAndStatuses
    /\ calls[c].sent[1].url = client.baseUrl \o <<"/","v","1","/","e","n","t","r","i","e","s","?","l","i","m","i","t","=","1","0","&","s","t","a","t","u","s","=","r","e","a","d","&","s","t","a","t","u","s","=","u","n","r","e","a","d">>

\* The base URL of the configuration less one trailing '/'.
NormalizedBase ==
  IF EndsWithSlash(config.baseURL.s) THEN AllButLast(config.baseURL.s)
  ELSE config.baseURL.s

\* The segment of the web interface for an entry status.
SegmentOf(status) ==
  IF status = <<"r","e","a","d">> THEN <<"h","i","s","t","o","r","y">> ELSE status

\* The body of an entry with the given status.
EntryBody(status) == <<"{","\"","s","t","a","t","u","s","\"",":","\"">> \o status \o <<"\"","}">>

\* C19: getMinifluxEntryUrl(id) fetches the entry and returns the normalized
\* base URL, '/', the segment, '/entry/' and the id, where the segment is
\* history when the fetched status is read and the fetched status itself
\* otherwise (unread, removed).
C19_EntryUrlFromStatus ==
  \A c \in Slots :
    \A status \in { <<"r","e","a","d">>, <<"u","n","r","e","a","d">>, <<"r","e","m","o","v","e","d">> } :
      ( /\ Answered(c)
        /\ calls[c].op = "getMinifluxEntryUrl"
        /\ calls[c].response.status \in {200, 201}
        /\ calls[c].response.body = EntryBody(status) )
        => LET id == NumberToString(calls[c].args.id)
           IN  /\ calls[c].sent[1].method = "GET"
               /\ calls[c].sent[1].url = NormalizedBase \o <<"/","v","1","/","e","n","t","r","i","e","s","/">> \o id
               /\ calls[c].outcome.kind = "resolved"
               /\ calls[c].outcome.value
                    = JStr(NormalizedBase \o <<"/">> \o SegmentOf(status) \o <<"/","e","n","t","r","y","/">> \o id)

\* getMinifluxEntryUrl(1) on a client of http://h/ whose entry is read.
C19_Witness ==
  \E c \in Slots :
    /\ Answered(c)
    /\ calls[c].op = "getMinifluxEntryUrl"
    /\ config.baseURL = JStr(<<"h","t","t","p",":","/","/","h","/">>)
    /\ calls[c].response = [status |-> 200, body |-> EntryBody(<<"r","e","a","d">>)]
    /\ calls[c].outcome.kind = "resolved"
    /\ calls[c].outcome.value = JStr(<<"h","t","t","p",":","/","/","h","/","h","i","s","t","o","r","y","/","e","n","t","r","y","/","1">>)

\* The action operations that return nothing.
VoidActionOps ==
  { "deleteFeed", "refreshFeed", "refreshAllFeeds", "markFeedAsRead",
    "updateEntryStatus", "toggleBookmark", "deleteCategory",
    "refreshCategoryFeeds", "markCategoryAsRead", "deleteUser",
    "markUserAsRead" }

\* The invocations of an action operation answered by a 2xx response.
ActionSucceeded(c) ==
  /\ Answered(c)
  /\ calls[c].op \in VoidActionOps
  /\ calls[c].response.status >= 200
  /\ calls[c].response.status <= 299

\* C20 as stated: every action operation resolves with undefined on any
\* successful response, whatever its status and body.
C20_ActionResolvesUndefined ==
  \A c \in Slots :
    ActionSucceeded(c)
      => /\ calls[c].outcome.kind = "resolved"
         /\ calls[c].outcome.value = Undefined

\* C20, amended: on a 2xx response every action operation resolves with
\* undefined, whatever the body, unless the status is 200 or 201 and the
\* body is not a JSON text: then it is rejected with the SyntaxError of the
\* decoding.
C20_ActionResolvesUndefinedUnlessUndecodable ==
  \A c \in Slots :
    ActionSucceeded(c)
      => IF calls[c].response.status \in {200, 201}
              /\ calls[c].response.body \notin JsonBodies
           THEN /\ calls[c].outcome.kind = "rejected"
                /\ calls[c].outcome.error.name = "SyntaxError"
           ELSE /\ calls[c].outcome.kind = "resolved"
                /\ calls[c].outcome.value = Undefined

\* toggleBookmark answered 200 with a JSON object: resolved with undefined.
C20_Witness ==
  \E c \in Slots :
    /\ ActionSucceeded(c)
    /\ calls[c].op = "toggleBookmark"
    /\ calls[c].response = [status |-> 200, body |-> <<"{","\"","s","t","a","t","u","s","\"",":","\"","r","e","a","d","\"","}">>]
    /\ calls[c].outcome.kind = "resolved"
    /\ calls[c].outcome.value = Undefined

\* The invocations that failed: the transport raised an error, the response
\* has an error status, or the body of a 200 or 201 that is to be decoded is
\* not a JSON text.
Failed(c) ==
  /\ calls[c].state = "settled"
  /\ \/ calls[c].response = NoResponse
     \/ calls[c].response.status < 200
     \/ calls[c].response.status > 299
     \/ /\ calls[c].response.status \in {200, 201}
        /\ calls[c].op \notin PlainTextOps
        /\ calls[c].response.body \notin JsonBodies

\* C21: every failure of an operation, an error status, an error of the
\* transport or a success body that cannot be decoded, rejects the promise of
\* the operation with the error the request failed with: none is swallowed
\* and no value is returned, the URL of getMinifluxEntryUrl included.
C21_FailureIsRejection ==
  \A c \in Slots :
    Failed(c) =>
      /\ calls[c].outcome.kind = "rejected"
      /\ calls[c].outcome = calls[c].primitive
      /\ calls[c].outcome.error.name =
           IF calls[c].response = NoResponse THEN "TypeError"
           ELSE IF calls[c].response.status \in {200, 201} THEN "SyntaxError"
           ELSE "Error"

\* deleteFeed answered by a 500: the promise of the operation is
\* rejected with an Error.
C21_Witness ==
  \E c \in Slots :
    /\ Failed(c)
    /\ calls[c].op = "deleteFeed"
    /\ calls[c].response.status = 500
    /\ calls[c].outcome.kind = "rejected"
    /\ calls[c].outcome.error.name = "Error"

\* C22: after construction the configuration of the client is immutable: no
\* step, the invocation of an operation, its success or its failure, changes
\* the base URL, the stored credentials or the header set, and every request
\* carries the headers computed at construction.
C22_ConfigurationIsImmutable ==
  [][ pc = "ready" =>
        /\ pc' = "ready"
        /\ config' = config
        /\ client' = client
        /\ client = NewClient(config)
        /\ \A c \in Slots :
             Issued(c)' => calls'[c].sent[1].headers = AuthHeaders(config) ]_vars

\* An operation of a client with an API key has failed on a 500: the client
\* still holds the header set of its construction.
C22_Witness ==
  \E c \in Slots :
    /\ Answered(c)
    /\ calls[c].response.status = 500
    /\ calls[c].outcome.kind = "rejected"
    /\ config.authType = "api_key"
    /\ client = NewClient(config)
    /\ "X-Auth-Token" \in DOMAIN client.headers
    /\ calls[c].sent[1].headers = client.headers

\* What an invocation settled on its response, or on the error of the
\* transport, settles to when it runs alone.
AloneOutcome(c) ==
  IF calls[c].response = NoResponse
    THEN Rejected("TypeError", FetchFailedMessage, "none")
  ELSE OpOutcome(client, calls[c].op, calls[c].args,
                 RequestOutcome(calls[c].response, IsJson(calls[c].op)))

\* An invocation has sent the request of its operation and, once settled,
\* has the outcome it has alone.
AsAlone(c) ==
  /\ calls[c].state \in {"awaiting", "settled"} =>
       calls[c].sent = <<FetchCall(client, calls[c].op, calls[c].args)>>
  /\ calls[c].state = "awaiting" => calls[c].outcome = Pending
  /\ calls[c].state = "settled" => calls[c].outcome = AloneOutcome(c)

\* A step of one invocation changes nothing of the other one and nothing of
\* the constructed client.
StepOfOne ==
  /\ \A c, d \in PairSlots :
       (c # d /\ calls'[c] # calls[c]) => calls'[d] = calls[d]
  /\ pc = "ready" => client' = client

\* C23: for any interleaving of two operations invoked on one client, each
\* sends the request and returns the outcome it does alone on its own
\* response: a step of one invocation, its response included, changes
\* nothing of the other one, and nothing of the client.
C23_InFlightOperationsAreIndependent ==
  /\ [](\A c \in PairSlots : AsAlone(c))
  /\ [][StepOfOne]_vars

\* getMinifluxEntryUrl and deleteFeed in flight together, the later one
\* answered first with a 500: it is rejected, the other one still awaits.
C23_Witness ==
  /\ calls[1].state = "awaiting"
  /\ calls[1].op = "getMinifluxEntryUrl"
  /\ calls[2].state = "settled"
  /\ calls[2].op = "deleteFeed"
  /\ calls[2].response.status = 500
  /\ calls[2].outcome.kind = "rejected"

\* The promise of an invocation is no longer pending.
Settled(c) == calls[c].outcome.kind \in {"resolved", "rejected"}

\* Nothing but its settlement ends an invocation that awaits its response.
NoCancel ==
  \A c \in PairSlots :
    calls[c].state = "awaiting"
      => \/ calls'[c] = calls[c]
         \/ calls'[c].state = "settled" /\ Settled(c)'

\* C24: every invoked operation eventually settles: when the transport
\* answers its request with a response or with an error, the promise of the
\* operation resolves or rejects; no step of the client leaves it pending
\* or cancels it.
C24_EveryInvocationSettles ==
  /\ \A c \in PairSlots : (calls[c].state = "awaiting") ~> Settled(c)
  /\ [][NoCancel]_vars

\* Two operations were invoked; the first one has settled on its response
\* while the second one still awaits its own.
C24_Witness ==
  /\ calls[1].state = "settled"
  /\ calls[1].response.status = 204
  /\ calls[1].outcome.kind = "resolved"
  /\ calls[2].state = "awaiting"
  /\ calls[2].outcome = Pending

\* The contract table: operation, verb, path before the id, whether the
\* path holds the id, path after the id.
ContractTable ==
  { <<"getFeeds", "GET", <<"/","v","1","/","f","e","e","d","s">>, FALSE, <<>>>>,
    <<"getFeed", "GET", <<"/","v","1","/","f","e","e","d","s","/">>, TRUE, <<>>>>,
    <<"createFeed", "POST", <<"/","v","1","/","f","e","e","d","s">>, FALSE, <<>>>>,
    <<"deleteFeed", "DELETE", <<"/","v","1","/","f","e","e","d","s","/">>, TRUE, <<>>>>,
    <<"refreshFeed", "PUT", <<"/","v","1","/","f","e","e","d","s","/">>, TRUE, <<"/","r","e","f","r","e","s","h">>>>,
    <<"getFeedIcon", "GET", <<"/","v","1","/","f","e","e","d","s","/">>, TRUE, <<"/","i","c","o","n">>>>,
    <<"getFeedEntries", "GET", <<"/","v","1","/","f","e","e","d","s","/">>, TRUE, <<"/","e","n","t","r","i","e","s">>>>,
    <<"refreshAllFeeds", "PUT", <<"/","v","1","/","f","e","e","d","s","/","r","e","f","r","e","s","h">>, FALSE, <<>>>>,
    <<"markFeedAsRead", "PUT", <<"/","v","1","/","f","e","e","d","s","/">>, TRUE, <<"/","m","a","r","k","-","a","l","l","-","a","s","-","r","e","a","d">>>>,
    <<"updateFeed", "PUT", <<"/","v","1","/","f","e","e","d","s","/">>, TRUE, <<>>>>,
    <<"getEntries", "GET", <<"/","v","1","/","e","n","t","r","i","e","s">>, FALSE, <<>>>>,
    <<"getEntry", "GET", <<"/","v","1","/","e","n","t","r","i","e","s","/">>, TRUE, <<>>>>,
    <<"updateEntryStatus", "PUT", <<"/","v","1","/","e","n","t","r","i","e","s","/">>, TRUE, <<>>>>,
    <<"toggleBookmark", "PUT", <<"/","v","1","/","e","n","t","r","i","e","s","/">>, TRUE, <<"/","b","o","o","k","m","a","r","k">>>>,
    <<"fetchContent", "GET", <<"/","v","1","/","e","n","t","r","i","e","s","/">>, TRUE, <<"/","f","e","t","c","h","-","c","o","n","t","e","n","t">>>>,
    <<"saveEntry", "POST", <<"/","v","1","/","e","n","t","r","i","e","s","/">>, TRUE, <<"/","s","a","v","e">>>>,
    <<"updateEntry", "PUT", <<"/","v","1","/","e","n","t","r","i","e","s","/">>, TRUE, <<>>>>,
    <<"getCategories", "GET", <<"/","v","1","/","c","a","t","e","g","o","r","i","e","s">>, FALSE, <<>>>>,
    <<"createCategory", "POST", <<"/","v","1","/","c","a","t","e","g","o","r","i","e","s">>, FALSE, <<>>>>,
    <<"updateCategory", "PUT", <<"/","v","1","/","c","a","t","e","g","o","r","i","e","s","/">>, TRUE, <<>>>>,
    <<"deleteCategory", "DELETE", <<"/","v","1","/","c","a","t","e","g","o","r","i","e","s","/">>, TRUE, <<>>>>,
    <<"refreshCategoryFeeds", "PUT", <<"/","v","1","/","c","a","t","e","g","o","r","i","e","s","/">>, TRUE, <<"/","r","e","f","r","e","s","h">>>>,
    <<"getCategoryEntries", "GET", <<"/","v","1","/","c","a","t","e","g","o","r","i","e","s","/">>, TRUE, <<"/","e","n","t","r","i","e","s">>>>,
    <<"markCategoryAsRead", "PUT", <<"/","v","1","/","c","a","t","e","g","o","r","i","e","s","/">>, TRUE, <<"/","m","a","r","k","-","a","l","l","-","a","s","-","r","e","a","d">>>>,
    <<"getEnclosure", "GET", <<"/","v","1","/","e","n","c","l","o","s","u","r","e","s","/">>, TRUE, <<>>>>,
    <<"updateEnclosure", "PUT", <<"/","v","1","/","e","n","c","l","o","s","u","r","e","s","/">>, TRUE, <<>>>>,
    <<"getMe", "GET", <<"/","v","1","/","m","e">>, FALSE, <<>>>>,
    <<"getUsers", "GET", <<"/","v","1","/","u","s","e","r","s">>, FALSE, <<>>>>,
    <<"getUser", "GET", <<"/","v","1","/","u","s","e","r","s","/">>, TRUE, <<>>>>,
    <<"createUser", "POST", <<"/","v","1","/","u","s","e","r","s">>, FALSE, <<>>>>,
    <<"updateUser", "PUT", <<"/","v","1","/","u","s","e","r","s","/">>, TRUE, <<>>>>,
    <<"deleteUser", "DELETE", <<"/","v","1","/","u","s","e","r","s","/">>, TRUE, <<>>>>,
    <<"markUserAsRead", "PUT", <<"/","v","1","/","u","s","e","r","s","/">>, TRUE, <<"/","m","a","r","k","-","a","l","l","-","a","s","-","r","e","a","d">>>>,
    <<"healthcheck", "GET", <<"/","h","e","a","l","t","h","c","h","e","c","k">>, FALSE, <<>>>>,
    <<"getVersion", "GET", <<"/","v","e","r","s","i","o","n">>, FALSE, <<>>>>,
    <<"getCounters", "GET", <<"/","v","1","/","f","e","e","d","s","/","c","o","u","n","t","e","r","s">>, FALSE, <<>>>>,
    <<"searchEntries", "GET", <<"/","v","1","/","e","n","t","r","i","e","s">>, FALSE, <<>>>>,
    <<"getMinifluxEntryUrl", "GET", <<"/","v","1","/","e","n","t","r","i","e","s","/">>, TRUE, <<>>>> }

\* The row of the contract table for an operation.
ContractOf(op) == CHOOSE row \in ContractTable : row[1] = op

\* The part of a URL before its first '?'.
PathPart(url) ==
  IF \E i \in 1..Len(url) : url[i] = "?"
    THEN SubSeq(url, 1, Len(url) - Len(QueryOf(url)))
  ELSE url

\* The bodies the contract table gives as examples.
ContractBody(op, a) ==
  CASE op \in {"createCategory", "updateCategory"} -> JStr(<<"{","\"","t","i","t","l","e","\"",":","\"">> \o a.title \o <<"\"","}">>)
    [] op = "updateEntryStatus" -> JStr(<<"{","\"","s","t","a","t","u","s","\"",":","\"">> \o a.status \o <<"\"","}">>)
    [] op = "updateEnclosure" -> JStr(<<"{","\"","m","e","d","i","a","_","p","r","o","g","r","e","s","s","i","o","n","\"",":","5","}">>)

\* C25: every public operation sends its request to the normalized base URL
\* followed by the fixed path of the operation, with the verb of the
\* contract table, GET when the operation passes none; createCategory,
\* updateEntryStatus and updateEnclosure send the bodies {title}, {status}
\* and {media_progression}, and the operations that read send none.
C25_RequestFollowsContractTable ==
  \A c \in Slots :
    Issued(c) =>
      LET op == calls[c].op
          a == calls[c].args
          row == ContractOf(op)
          path == row[3] \o (IF row[4] THEN NumberToString(a.id) ELSE <<>>) \o row[5]
      IN  /\ PathPart(calls[c].sent[1].url) = NormalizedBase \o path
          /\ calls[c].sent[1].method = row[2]
          /\ op \in {"createCategory", "updateCategory", "updateEntryStatus", "updateEnclosure"}
               => calls[c].sent[1].body = ContractBody(op, a)
          /\ row[2] \in {"GET", "DELETE"} => calls[c].sent[1].body = Undefined

\* updateEnclosure(1, 5) on a client of http://h/: PUT to
\* http://h/v1/enclosures/1 with the media progression as its body.
C25_Witness ==
  \E c \in Slots :
    /\ Issued(c)
    /\ calls[c].op = "updateEnclosure"
    /\ config.baseURL = JStr(<<"h","t","t","p",":","/","/","h","/">>)
    /\ calls[c].sent[1].url = <<"h","t","t","p",":","/","/","h","/","v","1","/","e","n","c","l","o","s","u","r","e","s","/","1">>
    /\ calls[c].sent[1].method = "PUT"
    /\ calls[c].sent[1].body = JStr(<<"{","\"","m","e","d","i","a","_","p","r","o","g","r","e","s","s","i","o","n","\"",":","5","}">>)

\* C26: the legacy client constructed with authType password and neither a
\* username nor a password throws the error Miniflux password is required.
C26_LegacyPasswordRequiredFirst ==
  ( /\ legacy.pc # "fresh"
    /\ ~Falsy(legacy.options.baseURL)
    /\ legacy.options.authType = "password"
    /\ legacy.options.username = Undefined
    /\ legacy.options.password = Undefined )
    => (legacy.pc = "failed" /\ legacy.error = PasswordRequired)

\* C27: whenever getMinifluxEntryUrl resolves, the segment of the URL it
\* returns is history, unread or removed, never read, undefined or empty,
\* whatever success response the fetch of the entry received.
C27_SegmentIsAnEntryList ==
  \A c \in Slots :
    ( /\ Answered(c)
      /\ calls[c].op = "getMinifluxEntryUrl"
      /\ calls[c].outcome.kind = "resolved" )
      => \E segment \in { <<"h","i","s","t","o","r","y">>, <<"u","n","r","e","a","d">>, <<"r","e","m","o","v","e","d">> } :
           calls[c].outcome.value
             = JStr(NormalizedBase \o <<"/">> \o segment \o <<"/","e","n","t","r","y","/">>
                      \o NumberToString(calls[c].args.id))

\* C28: the header set of a constructed client holds at most one of
\* X-Auth-Token and Authorization, the one of the mode authType selects: a
\* configuration with an API key and a username and password sends the
\* header of the selected mode only, and the other credential in no header.
C28_OnlyTheSelectedCredential ==
  pc = "ready" =>
    LET h == client.headers
    IN  /\ ~("X-Auth-Token" \in DOMAIN h /\ "Authorization" \in DOMAIN h)
        /\ config.authType = "api_key" =>
             /\ DOMAIN h = DOMAIN DefaultHeaders \cup {"X-Auth-Token"}
             /\ h["X-Auth-Token"] = config.apiKey.s
        /\ config.authType = "password" =>
             /\ DOMAIN h = DOMAIN DefaultHeaders \cup {"Authorization"}
             /\ h["Authorization"] = BasicUsP
        /\ \A name \in DOMAIN DefaultHeaders : h[name] = DefaultHeaders[name]

\* A client constructed in password mode from a configuration that also
\* holds an API key: Authorization only.
C28_Witness ==
  /\ pc = "ready"
  /\ config.authType = "password"
  /\ config.apiKey = JStr(<<"k">>)
  /\ config.username = JStr(<<"u","s">>)
  /\ config.password = JStr(<<"p">>)
  /\ "Authorization" \in DOMAIN client.headers
  /\ "X-Auth-Token" \notin DOMAIN client.headers

\* The query string an entry listing sends for a filter.
QuerySentBy(op, filter) ==
  QueryOf(FetchCall(client, op,
                    [id |-> IF op = "getEntries" THEN 0 ELSE 1, filter |-> filter]).url)

\* The path of an entry listing before its query string.
ListingPrefix(op, id) ==
  CASE op = "getEntries" -> <<"/","v","1","/","e","n","t","r","i","e","s">>
    [] op = "getFeedEntries" -> <<"/","v","1","/","f","e","e","d","s","/">> \o NumberToString(id) \o <<"/","e","n","t","r","i","e","s">>
    [] op = "getCategoryEntries" -> <<"/","v","1","/","c","a","t","e","g","o","r","i","e","s","/">> \o NumberToString(id) \o <<"/","e","n","t","r","i","e","s">>

====
